---- MODULE Spec2Model ----
(***************************************************************************)
(* Route registry, plugin registry and OpenAPI document of lib/handler.js. *)
(*                                                                         *)
(* Strings the code takes apart (route paths, tags, parameter names) are   *)
(* sequences of one-character strings; strings the code only compares      *)
(* (verbs, handler identities, plugin names) are TLA+ strings.             *)
(***************************************************************************)
EXTENDS Integers, Sequences, FiniteSets, TLC

VARIABLES
    routes,        \* Map routeName -> descriptor                (handler.js:30)
    middlewares,   \* Map name -> middleware, insertion ordered  (handler.js:31)
    plugins,       \* Map pluginName -> descriptor               (handler.js:32)
    routeStack,    \* array of {path, method, routeName, config} (handler.js:33)
    router,        \* layer stack of the main express Router     (handler.js:29)
    paths,         \* openApiSpec.paths, keyed by <<path, verb>> (handler.js:46)
    tags,          \* openApiSpec.tags                           (handler.js:110)
    schemas,       \* openApiSpec.components.schemas             (handler.js:48)
    docBase,       \* openApiSpec info, servers, securitySchemes, responses
    disk,          \* file -> declaration the module exports now
    moduleCache,   \* ES module cache: import URL -> module namespace
    now,           \* Date.now(), in milliseconds
    initLog,       \* plugin names whose initialize hook has run, in order
    loads,         \* loadRoutesFromDir in progress: its pending loadRouteFile calls
    resp,          \* outcome of the last request sent through the router
    last,          \* the last operation called and how it ended
    ops,           \* number of operations called so far
    calc           \* the last call of a document heuristic: its input and result

vars == <<routes, middlewares, plugins, routeStack, router, paths, tags, schemas, docBase,
          disk, moduleCache, now, initLog, loads, resp, last, ops, calc>>

----------------------------------------------------------------------------
(* Bounds of the exploration.                                              *)

MaxOps == 3
MaxTime == 1

----------------------------------------------------------------------------
(* String helpers.                                                         *)

\* String.prototype.startsWith
StartsWith(s, prefix) ==
    /\ Len(prefix) <= Len(s)
    /\ SubSeq(s, 1, Len(prefix)) = prefix

\* String.prototype.includes
Includes(s, sub) ==
    \E i \in 1..(Len(s) - Len(sub) + 1) : SubSeq(s, i, i + Len(sub) - 1) = sub

\* position of the first c in s, 0 when there is none
RECURSIVE IndexOfFrom(_, _, _)
IndexOfFrom(s, c, i) ==
    IF i > Len(s) THEN 0
    ELSE IF s[i] = c THEN i
    ELSE IndexOfFrom(s, c, i + 1)

\* s.split('/').filter(p => p)
RECURSIVE SplitAcc(_, _, _)
SplitAcc(s, cur, acc) ==
    IF s = <<>> THEN (IF cur = <<>> THEN acc ELSE Append(acc, cur))
    ELSE IF Head(s) = "/"
         THEN SplitAcc(Tail(s), <<>>, IF cur = <<>> THEN acc ELSE Append(acc, cur))
         ELSE SplitAcc(Tail(s), Append(cur, Head(s)), acc)

PathSegments(s) == SplitAcc(s, <<>>, <<>>)

LowerLetters == <<"a","b","c","d","e","f","g","h","i","j","k","l","m",
                  "n","o","p","q","r","s","t","u","v","w","x","y","z">>
UpperLetters == <<"A","B","C","D","E","F","G","H","I","J","K","L","M",
                  "N","O","P","Q","R","S","T","U","V","W","X","Y","Z">>

\* c.toUpperCase() of one character
UpperChar(c) ==
    IF \E i \in 1..26 : LowerLetters[i] = c
    THEN UpperLetters[CHOOSE i \in 1..26 : LowerLetters[i] = c]
    ELSE c

\* m.toLowerCase() / m.toUpperCase() of the verbs a declaration may carry
VerbCases == { <<"get", "GET">>, <<"post", "POST">>, <<"put", "PUT">>,
               <<"patch", "PATCH">>, <<"delete", "DELETE">>,
               <<"head", "HEAD">>, <<"bogus", "BOGUS">>, <<"use", "USE">> }

ToLowerCase(m) ==
    IF \E c \in VerbCases : c[2] = m
    THEN (CHOOSE c \in VerbCases : c[2] = m)[1]
    ELSE m

ToUpperCase(m) ==
    IF \E c \in VerbCases : c[1] = m
    THEN (CHOOSE c \in VerbCases : c[1] = m)[2]
    ELSE m

SeqToSet(s) == { s[i] : i \in 1..Len(s) }

\* f with key k set to v (Map.prototype.set, obj[k] = v)
MapSet(f, k, v) == [x \in DOMAIN f \cup {k} |-> IF x = k THEN v ELSE f[x]]

\* f without key k (Map.prototype.delete)
MapDelete(f, k) == [x \in DOMAIN f \ {k} |-> f[x]]

EmptyMap == [x \in {} |-> 0]

\* the element of a one-element set: Only({ e : x \in {v} }) is e with x standing
\* for the value of v, which is worked out once however often e reads x
Only(S) == CHOOSE r \in S : TRUE

----------------------------------------------------------------------------
(* The auto-generation heuristics of the document (pure functions).        *)

HttpVerbsUpper == {"GET", "POST", "PUT", "PATCH", "DELETE"}

\* generateSummary: a verb-keyed template followed by the resource
generateSummary(method, resource) ==
    CASE method = "GET"    -> <<"Get ">> \o resource
      [] method = "POST"   -> <<"Create ">> \o resource
      [] method = "PUT"    -> <<"Update ">> \o resource
      [] method = "PATCH"  -> <<"Partially update ">> \o resource
      [] method = "DELETE" -> <<"Delete ">> \o resource
      [] OTHER             -> <<method, " ">> \o resource

\* generateDescription
generateDescription(method, resource) ==
    CASE method = "GET"    -> <<"Retrieve ">> \o resource \o <<" items">>
      [] method = "POST"   -> <<"Create a new ">> \o resource \o <<" with the provided data">>
      [] method = "PUT"    -> <<"Update an existing ">> \o resource \o <<" with new data">>
      [] method = "PATCH"  -> <<"Partially update an existing ">> \o resource
      [] method = "DELETE" -> <<"Remove an existing ">> \o resource
      [] OTHER             -> <<"Perform ", method, " operation on ">> \o resource

\* path.match(/{([^}]+)}/g): the leftmost non-overlapping {name} tokens, braces removed
RECURSIVE ParamMatches(_)
ParamMatches(s) ==
    IF s = <<>> THEN <<>>
    ELSE IF Head(s) # "{" THEN ParamMatches(Tail(s))
    ELSE LET close == IndexOfFrom(s, "}", 2)
         IN  IF close <= 2 THEN ParamMatches(Tail(s))
             ELSE <<SubSeq(s, 2, close - 1)>> \o ParamMatches(SubSeq(s, close + 1, Len(s)))

\* the schema type a path parameter gets
ParamType(paramName) ==
    IF Includes(paramName, <<"i", "d">>) \/ Includes(paramName, <<"I", "d">>)
    THEN "integer" ELSE "string"

\* extractParameters
extractParameters(path) ==
    LET m == ParamMatches(path)
    IN  [i \in 1..Len(m) |->
           [name |-> m[i], in |-> "path", required |-> TRUE,
            description |-> m[i] \o <<" identifier">>,
            type |-> ParamType(m[i])]]

IsPlainSegment(p) == p # <<>> /\ ~StartsWith(p, <<"{">>)

\* generateTagFromPath
generateTagFromPath(path) ==
    LET pathParts == SelectSeq(PathSegments(path), IsPlainSegment)
    IN  IF Len(pathParts) = 0 THEN <<"G", "e", "n", "e", "r", "a", "l">>
        ELSE LET resource == pathParts[Len(pathParts)]
             IN  <<UpperChar(resource[1])>> \o Tail(resource)

\* generateDefaultResponses: status code -> what the response is
commonResponses == ("400" :> "$ref ValidationError") @@ ("500" :> "Internal server error")

methodResponses(method) ==
    CASE method = "GET" ->
           ("200" :> "Successful response") @@ ("404" :> "$ref NotFoundError") @@ commonResponses
      [] method = "POST" ->
           ("201" :> "Resource created successfully") @@ commonResponses
      [] method = "PUT" ->
           ("200" :> "Resource updated successfully") @@ ("404" :> "$ref NotFoundError") @@ commonResponses
      [] method = "PATCH" ->
           ("200" :> "Resource partially updated successfully") @@ ("404" :> "$ref NotFoundError") @@ commonResponses
      [] method = "DELETE" ->
           ("204" :> "Resource deleted successfully") @@ ("404" :> "$ref NotFoundError") @@ commonResponses

\* (mutant) a verb without responses of its own gets the common ones only
generateDefaultResponses_commonOnly(method) ==
    IF method \in HttpVerbsUpper THEN methodResponses(method) ELSE commonResponses

\* generateDefaultResponses: methodResponses[method] || methodResponses.GET
generateDefaultResponses(method) ==
    IF method \in HttpVerbsUpper THEN methodResponses(method) ELSE methodResponses("GET")

\* config.publicPaths || ['/health', '/docs', '/openapi', '/ping']
publicPaths == { <<"/", "h", "e", "a", "l", "t", "h">>,
                 <<"/", "d", "o", "c", "s">>,
                 <<"/", "o", "p", "e", "n", "a", "p", "i">>,
                 <<"/", "p", "i", "n", "g">> }

\* (mutant) a path is public only when a public path is one of its leading
\* runs of whole segments
requiresAuth_wholeSegments(path) ==
    ~(\E publicPath \in publicPaths :
         path = publicPath \/ StartsWith(path, publicPath \o <<"/">>))

\* requiresAuth
requiresAuth(path) == ~(\E publicPath \in publicPaths : StartsWith(path, publicPath))

NoRequestBody == [present |-> FALSE, required |-> FALSE, schemaType |-> "", description |-> <<>>]

ResourceWord == <<"r", "e", "s", "o", "u", "r", "c", "e">>

\* (mutant) only post gets a request body
AutoEntry_bodyForPostOnly(path, method) ==
    LET methodUpper == ToUpperCase(method)
        pathSegments == PathSegments(path)
        resource == IF Len(pathSegments) > 0 THEN pathSegments[Len(pathSegments)]
                    ELSE ResourceWord
    IN  [customSpec  |-> FALSE,
         summary     |-> generateSummary(methodUpper, resource),
         description |-> generateDescription(methodUpper, resource),
         tags        |-> <<generateTagFromPath(path)>>,
         parameters  |-> extractParameters(path),
         responses   |-> generateDefaultResponses(methodUpper),
         security    |-> requiresAuth(path),
         requestBody |-> IF method = "post"
                         THEN [present |-> TRUE, required |-> TRUE, schemaType |-> "object",
                               description |-> resource \o <<" data">>]
                         ELSE NoRequestBody]

\* the entry autoGenerateOpenApiSpec builds for one route-stack record (lines 137-171)
AutoEntry(path, method) ==
    LET methodUpper == ToUpperCase(method)
        pathSegments == PathSegments(path)
        resource == IF Len(pathSegments) > 0 THEN pathSegments[Len(pathSegments)]
                    ELSE ResourceWord
    IN  [customSpec  |-> FALSE,
         summary     |-> generateSummary(methodUpper, resource),
         description |-> generateDescription(methodUpper, resource),
         tags        |-> <<generateTagFromPath(path)>>,
         parameters  |-> extractParameters(path),
         responses   |-> generateDefaultResponses(methodUpper),
         security    |-> requiresAuth(path),
         requestBody |-> IF method \in {"post", "put", "patch"}
                         THEN [present |-> TRUE, required |-> TRUE, schemaType |-> "object",
                               description |-> resource \o <<" data">>]
                         ELSE NoRequestBody]

----------------------------------------------------------------------------
(* The inputs: route paths, validation schemas, openapi metadata, plugin   *)
(* declarations, module exports and the files that hold them.              *)

PathA == <<"/", "a">>
PathB == <<"/", "b">>
PathW == <<"/", "w", "/", "{", "i", "d", "}">>
PathPing == <<"/", "p", "i", "n", "g">>

FieldName == <<"n", "a", "m", "e">>

\* a validation schema is opaque: validate(data) -> {error?}; `required` are the
\* fields its validate function insists on, `type` its _type, `keys` its _ids._byKey
Schema ==
    [ s \in {"needsName", "anything", "noValidateFn"} |->
        CASE s = "needsName" ->
               [hasValidate |-> TRUE, required |-> {FieldName}, type |-> "object",
                keys |-> <<FieldName>>]
          [] s = "anything" ->
               [hasValidate |-> TRUE, required |-> {}, type |-> "", keys |-> <<>>]
          [] s = "noValidateFn" ->
               [hasValidate |-> FALSE, required |-> {FieldName}, type |-> "", keys |-> <<>>] ]

NoValidate == [present |-> FALSE, body |-> "none", params |-> "none", query |-> "none"]
BodyNeedsName == [present |-> TRUE, body |-> "needsName", params |-> "none", query |-> "none"]
QueryNeedsName == [present |-> TRUE, body |-> "noValidateFn", params |-> "none", query |-> "needsName"]

TagX == <<"X">>
TagY == <<"Y">>

\* hand-authored openapi metadata
OpenApi ==
    [ o \in {"docX", "docY"} |->
        IF o = "docX"
        THEN [summary |-> <<"List x">>, description |-> <<"All x">>, tags |-> <<TagX>>,
              parameters |-> <<>>, responses |-> ("200" :> "x listed"), security |-> FALSE]
        ELSE [summary |-> <<"Make y">>, description |-> <<>>, tags |-> <<TagY, TagX>>,
              parameters |-> <<>>, responses |-> ("201" :> "y made"), security |-> TRUE] ]

\* plugin declarations: name "" is a missing name; initialize is none | ok | throws
\* | hangs (the promise the hook returns never settles);
\* middleware is none | notfn | the middleware function; routes are declarations
Plugin ==
    [ p \in {"plugA", "plugB", "plugNoName", "plugBadInit", "plugBadNested", "plugHangs"} |->
        CASE p = "plugA" ->
               [name |-> "pa", version |-> "1.0.0", dependencies |-> <<>>,
                initialize |-> "ok", middleware |-> "mwA", routes |-> <<"nested">>]
          [] p = "plugB" ->
               [name |-> "pb", version |-> "2.0.0", dependencies |-> <<"pa">>,
                initialize |-> "none", middleware |-> "mwB", routes |-> <<>>]
          [] p = "plugNoName" ->
               [name |-> "", version |-> "1.0.0", dependencies |-> <<"pz">>,
                initialize |-> "ok", middleware |-> "none", routes |-> <<>>]
          [] p = "plugBadInit" ->
               [name |-> "pc", version |-> "1.0.0", dependencies |-> <<>>,
                initialize |-> "throws", middleware |-> "mwC", routes |-> <<>>]
          [] p = "plugBadNested" ->
               [name |-> "pd", version |-> "1.0.0", dependencies |-> <<>>,
                initialize |-> "ok", middleware |-> "mwD",
                routes |-> <<"nested", "noHandler", "postA">>]
          [] p = "plugHangs" ->
               [name |-> "ph", version |-> "1.0.0", dependencies |-> <<>>,
                initialize |-> "hangs", middleware |-> "none", routes |-> <<>>] ]

\* what a module exports: kind is object | function | other (neither); handler is
\* none | notfn | the handler function; a function export registers fnRoutes on
\* the sub-router it is handed and then returns or throws
BaseDecl ==
    [kind |-> "object", path |-> PathA, method |-> <<"get">>, handler |-> "h1",
     middlewares |-> <<>>, validate |-> NoValidate, openapi |-> "none",
     plugin |-> "none", fnRoutes |-> <<>>, fnThrows |-> FALSE]

DeclIds == {"getA", "getA2", "postA", "customB", "multiB", "badVerb", "noHandler",
            "text", "fn", "withPlugA", "withPlugB", "nested", "noName", "badInit",
            "plugNoHandler", "useA", "putW", "badNested",
            "badVerbDoc", "withHang", "customB2", "fnCrash"}

Decl ==
    [ d \in DeclIds |->
        CASE d = "getA"      -> BaseDecl
          [] d = "getA2"     -> [BaseDecl EXCEPT !.handler = "h2", !.middlewares = <<"mw1">>]
          [] d = "postA"     -> [BaseDecl EXCEPT !.method = <<"POST">>, !.handler = "h3",
                                                 !.validate = BodyNeedsName]
          [] d = "customB"   -> [BaseDecl EXCEPT !.path = PathB, !.handler = "h4",
                                                 !.middlewares = <<"mw2">>,
                                                 !.openapi = "docX",
                                                 !.validate = QueryNeedsName]
          [] d = "multiB"    -> [BaseDecl EXCEPT !.path = PathB, !.handler = "h5",
                                                 !.method = <<"get", "post">>]
          [] d = "badVerb"   -> [BaseDecl EXCEPT !.path = PathW, !.handler = "h6",
                                                 !.method = <<"put", "bogus">>]
          [] d = "noHandler" -> [BaseDecl EXCEPT !.handler = "none"]
          [] d = "text"      -> [BaseDecl EXCEPT !.kind = "other"]
          [] d = "fn"        -> [BaseDecl EXCEPT !.kind = "function", !.handler = "none",
                                   !.fnRoutes = << [path |-> PathPing, method |-> "get", handler |-> "f1"],
                                                   [path |-> PathW, method |-> "delete", handler |-> "f2"] >>]
          [] d = "withPlugA" -> [BaseDecl EXCEPT !.path = PathW, !.handler = "h7",
                                                 !.plugin = "plugA"]
          [] d = "withPlugB" -> [BaseDecl EXCEPT !.path = PathB, !.handler = "h8",
                                                 !.method = <<"patch">>, !.plugin = "plugB"]
          [] d = "nested"    -> [BaseDecl EXCEPT !.path = PathPing, !.handler = "h9",
                                                 !.method = <<"post">>, !.openapi = "docY"]
          [] d = "noName"    -> [BaseDecl EXCEPT !.handler = "h10", !.plugin = "plugNoName"]
          [] d = "badInit"   -> [BaseDecl EXCEPT !.handler = "h11", !.plugin = "plugBadInit"]
          [] d = "plugNoHandler" -> [BaseDecl EXCEPT !.handler = "notfn", !.plugin = "plugA"]
          [] d = "useA"      -> [BaseDecl EXCEPT !.handler = "h12", !.method = <<"use">>]
          [] d = "putW"      -> [BaseDecl EXCEPT !.path = PathW, !.handler = "h13",
                                                 !.method = <<"PUT", "delete">>]
          [] d = "badNested" -> [BaseDecl EXCEPT !.handler = "h14", !.plugin = "plugBadNested"]
          [] d = "badVerbDoc" -> [BaseDecl EXCEPT !.path = PathB, !.handler = "h15",
                                                  !.method = <<"get", "bogus">>,
                                                  !.openapi = "docY"]
          [] d = "withHang"  -> [BaseDecl EXCEPT !.handler = "h16", !.plugin = "plugHangs"]
          [] d = "customB2"  -> [BaseDecl EXCEPT !.path = PathB, !.handler = "h17",
                                                 !.openapi = "docY"]
          [] d = "fnCrash"   -> [BaseDecl EXCEPT !.kind = "function", !.handler = "none",
                                   !.fnRoutes = << [path |-> PathB, method |-> "get", handler |-> "f3"] >>,
                                   !.fnThrows = TRUE] ]

\* a file path, already split the way path.basename / path.extname split it; the
\* stem is cut into runs of identifier characters and single other characters
File(dir, stem, ext) == [dir |-> dir, stem |-> stem, ext |-> ext]

FUsers   == File("api", <<"users">>, ".js")
FUsersV2 == File("api/v2", <<"users">>, ".js")
FItems   == File("api", <<"items">>, ".js")
FNotes   == File("api", <<"notes">>, ".txt")
FOrders  == File("mixed", <<"order", ".", "v1">>, ".mjs")
FBroken  == File("mixed", <<"broken">>, ".js")
FText    == File("mixed", <<"text">>, ".js")
FBase    == File("plugins", <<"base">>, ".js")
FDep     == File("plugins", <<"dep">>, ".js")
FDepCopy == File("more", <<"dep">>, ".js")
FBad     == File("more", <<"bad">>, ".js")
FWait    == File("stuck", <<"wait">>, ".js")
FFine    == File("stuck", <<"fine">>, ".js")
FCrash   == File("lone", <<"crash">>, ".js")

Files == {FUsers, FUsersV2, FItems, FOrders, FBroken, FText, FBase, FDep, FDepCopy, FBad,
          FWait, FFine, FCrash}

\* the directory tree: what fs.readdir yields for a directory, or the error code
\* it fails with; an entry is a file or a directory
FileEntry(f) == [isFile |-> TRUE, file |-> f, dir |-> ""]
DirEntry(dir) == [isFile |-> FALSE, file |-> File("", <<>>, ""), dir |-> dir]

Dirs == {"api", "api/v2", "mixed", "plugins", "more", "missing", "locked", "guarded",
         "stuck"}

ReadDir ==
    [ dir \in Dirs |->
        CASE dir = "api"     -> [code |-> "", entries |-> << FileEntry(FUsers), DirEntry("api/v2"),
                                                            FileEntry(FNotes), FileEntry(FItems) >>]
          [] dir = "api/v2"  -> [code |-> "", entries |-> << FileEntry(FUsersV2) >>]
          [] dir = "mixed"   -> [code |-> "", entries |-> << FileEntry(FBroken), FileEntry(FOrders),
                                                            FileEntry(FText) >>]
          [] dir = "plugins" -> [code |-> "", entries |-> << FileEntry(FBase), FileEntry(FDep) >>]
          [] dir = "more"    -> [code |-> "", entries |-> << FileEntry(FBad), FileEntry(FDepCopy) >>]
          [] dir = "missing" -> [code |-> "ENOENT", entries |-> <<>>]
          [] dir = "locked"  -> [code |-> "EACCES", entries |-> <<>>]
          [] dir = "guarded" -> [code |-> "", entries |-> << FileEntry(FUsers),
                                                            DirEntry("locked") >>]
          [] dir = "stuck"   -> [code |-> "", entries |-> << FileEntry(FWait), FileEntry(FFine) >>] ]

RECURSIVE getJsFiles(_)
RECURSIVE listEntries(_, _)

\* the loop of getJsFiles over the entries of a directory (lines 373-382); acc is
\* [err, files]
listEntries(entries, acc) ==
    IF entries = <<>> \/ acc.err # "" THEN acc
    ELSE LET entry == Head(entries)
         IN  IF ~entry.isFile
             THEN LET subFiles == getJsFiles(entry.dir)
                  IN  listEntries(Tail(entries),
                                  [err |-> subFiles.err, files |-> acc.files \o subFiles.files])
             ELSE IF entry.file.ext \in {".js", ".mjs"}
             THEN listEntries(Tail(entries), [acc EXCEPT !.files = Append(@, entry.file)])
             ELSE listEntries(Tail(entries), acc)

\* (mutant) every error of readdir is taken for a directory that does not exist
getJsFiles_swallowsAll(dirPath) ==
    IF ReadDir[dirPath].code # "" THEN [err |-> "", files |-> <<>>]
    ELSE LET listed == listEntries(ReadDir[dirPath].entries, [err |-> "", files |-> <<>>])
         IN  IF listed.err # "" THEN [err |-> listed.err, files |-> <<>>] ELSE listed

\* getJsFiles: a directory that does not exist lists as empty, any other error
\* of readdir propagates
getJsFiles(dirPath) ==
    IF ReadDir[dirPath].code = "ENOENT" THEN [err |-> "", files |-> <<>>]
    ELSE IF ReadDir[dirPath].code # "" THEN [err |-> ReadDir[dirPath].code, files |-> <<>>]
    ELSE LET listed == listEntries(ReadDir[dirPath].entries, [err |-> "", files |-> <<>>])
         IN  IF listed.err # "" THEN [err |-> listed.err, files |-> <<>>] ELSE listed

\* the source location registerPlugin gives a plugin's nested routes: `plugin:${name}`
PluginSource(name) == File("", <<"plugin", ":", name>>, "")

----------------------------------------------------------------------------
(* The registries and the document as one value, so that an operation is a *)
(* function from the state before to the state after; err = "" when the    *)
(* operation returned and names the error when it threw.                   *)

Cur ==
    [routes |-> routes, middlewares |-> middlewares, plugins |-> plugins,
     routeStack |-> routeStack, router |-> router, paths |-> paths, tags |-> tags,
     moduleCache |-> moduleCache, initLog |-> initLog, err |-> ""]

Throw(st, e) == [st EXCEPT !.err = e]

\* the characters extractRouteName keeps: [a-zA-Z0-9_-]; a chunk of a stem is a
\* run of them or one character outside them
OtherChars == {".", ":", " ", "@", "+"}

RECURSIVE Sanitize(_)
Sanitize(stem) ==
    IF stem = <<>> THEN ""
    ELSE (IF Head(stem) \in OtherChars THEN "_" ELSE Head(stem)) \o Sanitize(Tail(stem))

\* extractRouteName: path.basename(filePath, path.extname(filePath)), sanitized
extractRouteName(filePath) == Sanitize(filePath.stem)

\* getGlobalMiddlewares: Array.from(middlewares.values())
getGlobalMiddlewares(st) ==
    Only({ [i \in 1..Len(registered) |->
               [kind |-> "mw", fn |-> registered[i].fn, validate |-> NoValidate]] :
           registered \in {st.middlewares} })

\* registerMiddleware: a Map keeps the position of a key that is set again
registerMiddleware(before, name, middleware) ==
    Only({ IF middleware = "notfn" THEN Throw(st, "MiddlewareNotFunction")
           ELSE IF \E i \in 1..Len(st.middlewares) : st.middlewares[i].name = name
           THEN [st EXCEPT !.middlewares =
                   [i \in 1..Len(st.middlewares) |->
                       IF st.middlewares[i].name = name
                       THEN [name |-> name, fn |-> middleware] ELSE st.middlewares[i]]]
           ELSE [st EXCEPT !.middlewares = Append(@, [name |-> name, fn |-> middleware])] :
           st \in {before} })

\* (mutant) the custom entries are not re-added
autoGenerate_dropsCustom(before) ==
    Only({ [st EXCEPT !.paths =
              [k \in { <<st.routeStack[i].path, st.routeStack[i].method>> :
                          i \in 1..Len(st.routeStack) } |-> AutoEntry(k[1], k[2])]] :
           st \in {before} })

\* (mutant) the test for an entry already present looks at the old paths object
autoGenerate_checksOldPaths(before) ==
    Only({ LET existingPaths == st.paths
               kept == { k \in DOMAIN existingPaths : existingPaths[k].customSpec }
               stacked == { <<st.routeStack[i].path, st.routeStack[i].method>> :
                               i \in 1..Len(st.routeStack) }
           IN  [st EXCEPT !.paths =
                   [k \in kept \cup (stacked \ DOMAIN existingPaths) |->
                       IF k \in kept THEN existingPaths[k] ELSE AutoEntry(k[1], k[2])]] :
           st \in {before} })

\* autoGenerateOpenApiSpec: keep the entries flagged customSpec, drop the others,
\* build an entry for every route-stack record whose path+verb has none
autoGenerateOpenApiSpec(before) ==
    Only({ LET existingPaths == st.paths
               kept == { k \in DOMAIN existingPaths : existingPaths[k].customSpec }
               stacked == { <<st.routeStack[i].path, st.routeStack[i].method>> :
                               i \in 1..Len(st.routeStack) }
           IN  [st EXCEPT !.paths =
                   [k \in kept \cup stacked |->
                       IF k \in kept THEN existingPaths[k] ELSE AutoEntry(k[1], k[2])]] :
           st \in {before} })

\* convertValidationToSchema
convertValidationToSchema(validation) ==
    IF Schema[validation].type # "" THEN Schema[validation].type ELSE "object"

\* convertParamsToOpenApi
convertParamsToOpenApi(validation, paramType) ==
    LET keys == Schema[validation].keys
    IN  [i \in 1..Len(keys) |->
            [name |-> keys[i], in |-> paramType, required |-> (paramType = "path"),
             description |-> <<>>, type |-> "string"]]

\* openApiSpec.tags after the tags of an entry were added: push the ones not there
RECURSIVE PushTags(_, _)
PushTags(tagList, newTags) ==
    IF newTags = <<>> THEN tagList
    ELSE PushTags(IF Head(newTags) \in SeqToSet(tagList) THEN tagList
                  ELSE Append(tagList, Head(newTags)),
                  Tail(newTags))

\* addOpenApiPath
addOpenApiPath(st, path, method, openapi, validate) ==
    LET meta == OpenApi[openapi]
        params == (IF validate.present /\ validate.params # "none"
                   THEN convertParamsToOpenApi(validate.params, "path") ELSE <<>>)
                  \o (IF validate.present /\ validate.query # "none"
                      THEN convertParamsToOpenApi(validate.query, "query") ELSE <<>>)
        pathSpec ==
            [customSpec  |-> TRUE,
             summary     |-> meta.summary,
             description |-> meta.description,
             tags        |-> meta.tags,
             parameters  |-> meta.parameters \o params,
             responses   |-> meta.responses,
             security    |-> meta.security,
             requestBody |-> IF validate.present /\ validate.body # "none"
                             THEN [present |-> TRUE, required |-> TRUE,
                                   schemaType |-> convertValidationToSchema(validate.body),
                                   description |-> <<>>]
                             ELSE NoRequestBody]
    IN  [st EXCEPT !.tags = PushTags(@, meta.tags),
                   !.paths = MapSet(@, <<path, method>>, pathSpec)]

\* the properties of an express Router that registerObjectRoute can call with a
\* path, pre-handlers and a handler: the verb methods, all, and use, which
\* takes the same arguments and mounts them for every verb
RouterMethods == {"get", "post", "put", "patch", "delete", "head", "options", "all", "use"}

\* (mutant) the validation middleware is put first
allMiddlewaresOf_validationFirst(st, d) ==
    (IF Decl[d].validate.present
     THEN << [kind |-> "validation", fn |-> "validation", validate |-> Decl[d].validate] >>
     ELSE <<>>)
    \o getGlobalMiddlewares(st)
    \o [i \in 1..Len(Decl[d].middlewares) |->
           [kind |-> "mw", fn |-> Decl[d].middlewares[i], validate |-> NoValidate]]

\* the pre-handlers of an object route (lines 459-463)
allMiddlewaresOf(st, d) ==
    getGlobalMiddlewares(st)
    \o [i \in 1..Len(Decl[d].middlewares) |->
           [kind |-> "mw", fn |-> Decl[d].middlewares[i], validate |-> NoValidate]]
    \o (IF Decl[d].validate.present
        THEN << [kind |-> "validation", fn |-> "validation", validate |-> Decl[d].validate] >>
        ELSE <<>>)

\* one turn of methods.forEach in registerObjectRoute (lines 471-494); w holds the
\* state and the sub-router being filled
registerVerb(w, d, routeName, allMiddlewares, m) ==
    LET methodLower == ToLowerCase(m)
        pushed == [w.st EXCEPT !.routeStack =
                     Append(@, [path |-> Decl[d].path, method |-> methodLower,
                                routeName |-> routeName, config |-> d])]
        documented == IF Decl[d].openapi # "none"
                      THEN addOpenApiPath(pushed, Decl[d].path, methodLower,
                                          Decl[d].openapi, Decl[d].validate)
                      ELSE pushed
    IN  IF methodLower \notin RouterMethods
        THEN [w EXCEPT !.st = Throw(w.st, "InvalidMethod")]
        ELSE [st |-> autoGenerateOpenApiSpec(documented),
              routeRouter |-> Append(w.routeRouter,
                                [path |-> Decl[d].path, method |-> methodLower,
                                 chain |-> allMiddlewares, handler |-> Decl[d].handler])]

RECURSIVE registerVerbs(_, _, _, _, _)
registerVerbs(before, d, routeName, allMiddlewares, methods) ==
    Only({ IF methods = <<>> \/ w.st.err # "" THEN w
           ELSE registerVerbs(registerVerb(w, d, routeName, allMiddlewares, Head(methods)),
                              d, routeName, allMiddlewares, Tail(methods)) :
           w \in {before} })

\* (mutant) the descriptor is not stored in the route registry
registerRouteVerbs_notRecorded(st, d, filePath, allMiddlewares) ==
    Only({ IF w.st.err # "" THEN w.st
           ELSE [w.st EXCEPT
                   !.router = Append(@, [kind |-> "router", routes |-> w.routeRouter])] :
           w \in { registerVerbs([st |-> st, routeRouter |-> <<>>], d,
                                 extractRouteName(filePath), allMiddlewares,
                                 Decl[d].method) } })

\* registerObjectRoute from the methods loop on (lines 469-503)
registerRouteVerbs(st, d, filePath, allMiddlewares) ==
    Only({ IF w.st.err # "" THEN w.st
           ELSE [w.st EXCEPT
                   !.routes = MapSet(@, extractRouteName(filePath),
                                [router |-> w.routeRouter, filePath |-> filePath,
                                 config |-> d, type |-> "object"]),
                   !.router = Append(@, [kind |-> "router", routes |-> w.routeRouter])] :
           w \in { registerVerbs([st |-> st, routeRouter |-> <<>>], d,
                                 extractRouteName(filePath), allMiddlewares,
                                 Decl[d].method) } })

----------------------------------------------------------------------------
(* Plugins, object and function routes, module loading.                    *)

\* (mutant) the dependency checks are left out
pluginPrologue_noDependencyCheck(st, p) ==
    IF Plugin[p].name = "" THEN Throw(st, "PluginNameMissing")
    ELSE CASE Plugin[p].initialize = "none"   -> st
           [] Plugin[p].initialize \in {"ok", "hangs"} ->
                  [st EXCEPT !.initLog = Append(@, Plugin[p].name)]
           [] Plugin[p].initialize = "throws" ->
                  Throw([st EXCEPT !.initLog = Append(@, Plugin[p].name)], "InitializeFailed")

\* registerPlugin up to the end of the initialize hook (lines 517-529): the name
\* check, the dependency checks, then the hook, awaited
pluginPrologue(st, p) ==
    LET name == Plugin[p].name
        dependencies == Plugin[p].dependencies
    IN  IF name = "" THEN Throw(st, "PluginNameMissing")
        ELSE IF \E i \in 1..Len(dependencies) : dependencies[i] \notin DOMAIN st.plugins
        THEN Throw(st, "DependencyNotFound")
        ELSE CASE Plugin[p].initialize = "none"   -> st
               [] Plugin[p].initialize \in {"ok", "hangs"} ->
                      [st EXCEPT !.initLog = Append(@, name)]
               [] Plugin[p].initialize = "throws" ->
                      Throw([st EXCEPT !.initLog = Append(@, name)], "InitializeFailed")

\* registerPlugin, the middleware registration (lines 531-533)
pluginMiddleware(st, p) ==
    IF Plugin[p].middleware # "none"
    THEN registerMiddleware(st, Plugin[p].name \o "_middleware", Plugin[p].middleware)
    ELSE st

\* registerPlugin, the record made at the end (lines 541-546)
pluginRecord(st, p, routeName) ==
    [st EXCEPT !.plugins =
        MapSet(@, Plugin[p].name,
               [name |-> Plugin[p].name, version |-> Plugin[p].version,
                dependencies |-> Plugin[p].dependencies, routeName |-> routeName])]

RECURSIVE registerObjectRoute(_, _, _)
RECURSIVE registerPlugin(_, _, _)
RECURSIVE pluginRoutes(_, _, _)

\* registerPlugin, the loop over the plugin's nested routes (lines 535-539)
pluginRoutes(before, p, pluginRoutesLeft) ==
    Only({ IF pluginRoutesLeft = <<>> \/ st.err # "" THEN st
           ELSE pluginRoutes(registerObjectRoute(st, Head(pluginRoutesLeft),
                                                 PluginSource(Plugin[p].name)),
                             p, Tail(pluginRoutesLeft)) :
           st \in {before} })

\* (mutant) the plugin is recorded before its nested routes are registered
registerPlugin_recordsFirst(st, p, routeName) ==
    Only({ IF initialized.err # "" THEN initialized
           ELSE pluginRoutes(pluginRecord(pluginMiddleware(initialized, p), p, routeName),
                             p, Plugin[p].routes) :
           initialized \in { pluginPrologue(st, p) } })

\* registerPlugin
registerPlugin(st, p, routeName) ==
    Only({ IF initialized.err # "" THEN initialized
           ELSE Only({ IF withRoutes.err # "" THEN withRoutes
                       ELSE pluginRecord(withRoutes, p, routeName) :
                       withRoutes \in { pluginRoutes(pluginMiddleware(initialized, p), p,
                                                     Plugin[p].routes) } }) :
           initialized \in { pluginPrologue(st, p) } })

\* the handler check of registerObjectRoute (lines 452-454)
handlerMissing(d) == Decl[d].handler \in {"none", "notfn"}

\* (mutant) the handler is checked after the plugin was registered
registerObjectRoute_checksHandlerLate(before, d, filePath) ==
    Only({ Only({ IF withPlugin.err # "" THEN withPlugin
                  ELSE IF handlerMissing(d) THEN Throw(withPlugin, "MissingHandler")
                  ELSE registerRouteVerbs(withPlugin, d, filePath, allMiddlewaresOf(st, d)) :
                  withPlugin \in { IF Decl[d].plugin # "none"
                                   THEN registerPlugin(st, Decl[d].plugin,
                                                       extractRouteName(filePath))
                                   ELSE st } }) :
           st \in {before} })

\* registerObjectRoute
registerObjectRoute(before, d, filePath) ==
    Only({ IF handlerMissing(d) THEN Throw(st, "MissingHandler")
           ELSE LET routeName == extractRouteName(filePath)
                    allMiddlewares == allMiddlewaresOf(st, d)
                IN  Only({ IF withPlugin.err # "" THEN withPlugin
                           ELSE registerRouteVerbs(withPlugin, d, filePath, allMiddlewares) :
                           withPlugin \in { IF Decl[d].plugin # "none"
                                            THEN registerPlugin(st, Decl[d].plugin, routeName)
                                            ELSE st } }) :
           st \in {before} })

\* the sub-router after routeFunction has registered its routes on it
functionRouter(d) ==
    [i \in 1..Len(Decl[d].fnRoutes) |->
        [path |-> Decl[d].fnRoutes[i].path, method |-> Decl[d].fnRoutes[i].method,
         chain |-> <<>>, handler |-> Decl[d].fnRoutes[i].handler]]

\* (mutant) the sub-router is mounted before the function is called
registerFunctionRoute_mountsFirst(st, d, filePath) ==
    LET routeRouter == functionRouter(d)
        routeName == extractRouteName(filePath)
        scanned == [i \in 1..Len(routeRouter) |->
                       [path |-> routeRouter[i].path, method |-> routeRouter[i].method,
                        routeName |-> routeName, config |-> "none"]]
        mounted == [st EXCEPT !.router = Append(@, [kind |-> "router", routes |-> routeRouter])]
    IN  IF Decl[d].fnThrows THEN Throw(mounted, "RouteFunctionThrew")
        ELSE autoGenerateOpenApiSpec(
                [mounted EXCEPT
                    !.routes = MapSet(@, routeName,
                                 [router |-> routeRouter, filePath |-> filePath,
                                  config |-> "none", type |-> "function"]),
                    !.routeStack = @ \o scanned])

\* (mutant) the layers of the sub-router are not scanned
registerFunctionRoute_noScan(st, d, filePath) ==
    IF Decl[d].fnThrows THEN Throw(st, "RouteFunctionThrew")
    ELSE LET routeRouter == functionRouter(d)
             routeName == extractRouteName(filePath)
         IN  autoGenerateOpenApiSpec(
                [st EXCEPT
                    !.routes = MapSet(@, routeName,
                                 [router |-> routeRouter, filePath |-> filePath,
                                  config |-> "none", type |-> "function"]),
                    !.router = Append(@, [kind |-> "router", routes |-> routeRouter])])

\* registerFunctionRoute
registerFunctionRoute(st, d, filePath) ==
    IF Decl[d].fnThrows THEN Throw(st, "RouteFunctionThrew")
    ELSE LET routeRouter == functionRouter(d)
             routeName == extractRouteName(filePath)
             scanned == [i \in 1..Len(routeRouter) |->
                            [path |-> routeRouter[i].path, method |-> routeRouter[i].method,
                             routeName |-> routeName, config |-> "none"]]
         IN  autoGenerateOpenApiSpec(
                [st EXCEPT
                    !.routes = MapSet(@, routeName,
                                 [router |-> routeRouter, filePath |-> filePath,
                                  config |-> "none", type |-> "function"]),
                    !.router = Append(@, [kind |-> "router", routes |-> routeRouter]),
                    !.routeStack = @ \o scanned])

\* import(`file://${path.resolve(filePath)}?t=${Date.now()}`): the module cache is
\* keyed by the whole URL, so a URL imported before yields the module it yielded
\* then; any other URL reads the file
importUrl(filePath, t) == <<filePath, t>>

importHits(st, filePath, t) == importUrl(filePath, t) \in DOMAIN st.moduleCache

importedModule(st, dsk, filePath, t) ==
    IF importHits(st, filePath, t) THEN st.moduleCache[importUrl(filePath, t)]
    ELSE dsk[filePath]

\* (mutant) whatever is not a function is registered as a declaration object
loadRouteFile_noTypeCheck(before, dsk, filePath, t) ==
    Only({ IF ~importHits(st, filePath, t) /\ filePath \notin DOMAIN dsk
           THEN Throw(st, "ModuleNotFound")
           ELSE LET routeConfig == importedModule(st, dsk, filePath, t)
                    imported == [st EXCEPT !.moduleCache =
                                   MapSet(@, importUrl(filePath, t), routeConfig)]
                IN  CASE Decl[routeConfig].kind = "function" ->
                           registerFunctionRoute(imported, routeConfig, filePath)
                      [] OTHER ->
                           registerObjectRoute(imported, routeConfig, filePath) :
           st \in {before} })

\* loadRouteFile
loadRouteFile(before, dsk, filePath, t) ==
    Only({ IF ~importHits(st, filePath, t) /\ filePath \notin DOMAIN dsk
           THEN Throw(st, "ModuleNotFound")
           ELSE LET routeConfig == importedModule(st, dsk, filePath, t)
                    imported == [st EXCEPT !.moduleCache =
                                   MapSet(@, importUrl(filePath, t), routeConfig)]
                IN  CASE Decl[routeConfig].kind = "function" ->
                           registerFunctionRoute(imported, routeConfig, filePath)
                      [] Decl[routeConfig].kind = "object" ->
                           registerObjectRoute(imported, routeConfig, filePath)
                      [] OTHER -> Throw(imported, "InvalidExport") :
           st \in {before} })

\* reloadRoute
reloadRoute(st, dsk, routeName, t) ==
    IF routeName \notin DOMAIN st.routes THEN Throw(st, "RouteNotFound")
    ELSE Only({ IF loaded.err # "" THEN loaded ELSE autoGenerateOpenApiSpec(loaded) :
                loaded \in { loadRouteFile(st, dsk, st.routes[routeName].filePath, t) } })

\* (mutant) the name is looked up after the route stack was filtered
removeRoute_lookupLast(st, routeName) ==
    LET NotIt(r) == r.routeName # routeName
        filtered == [st EXCEPT !.routeStack = SelectSeq(@, NotIt)]
    IN  IF routeName \notin DOMAIN st.routes
        THEN Throw(autoGenerateOpenApiSpec(filtered), "RouteNotFound")
        ELSE autoGenerateOpenApiSpec([filtered EXCEPT !.routes = MapDelete(@, routeName)])

\* (mutant) the document is not regenerated after the removal
removeRoute_noRegenerate(st, routeName) ==
    IF routeName \notin DOMAIN st.routes THEN Throw(st, "RouteNotFound")
    ELSE LET NotIt(r) == r.routeName # routeName
         IN  [st EXCEPT !.routes = MapDelete(@, routeName),
                        !.routeStack = SelectSeq(@, NotIt)]

\* (mutant) the document entries of the removed route go with it, custom or not
removeRoute_forgetsEntries(st, routeName) ==
    IF routeName \notin DOMAIN st.routes THEN Throw(st, "RouteNotFound")
    ELSE LET NotIt(r) == r.routeName # routeName
             IsIt(r) == r.routeName = routeName
             gone == { <<r.path, r.method>> : r \in SeqToSet(SelectSeq(st.routeStack, IsIt)) }
         IN  autoGenerateOpenApiSpec(
                [st EXCEPT !.routes = MapDelete(@, routeName),
                           !.routeStack = SelectSeq(@, NotIt),
                           !.paths = [k \in DOMAIN @ \ gone |-> @[k]]])

\* removeRoute
removeRoute(st, routeName) ==
    IF routeName \notin DOMAIN st.routes THEN Throw(st, "RouteNotFound")
    ELSE LET NotIt(r) == r.routeName # routeName
         IN  autoGenerateOpenApiSpec(
                [st EXCEPT !.routes = MapDelete(@, routeName),
                           !.routeStack = SelectSeq(@, NotIt)])

\* one turn of methods.forEach in addRoute (lines 745-770): a verb the router
\* does not know is skipped
addRouteVerb(st, d, t, m) ==
    LET methodLower == ToLowerCase(m)
        pushed == [st EXCEPT
                     !.router = Append(@, [kind |-> "route", routes |->
                                   << [path |-> Decl[d].path, method |-> methodLower,
                                       chain |-> [i \in 1..Len(Decl[d].middlewares) |->
                                                    [kind |-> "mw", fn |-> Decl[d].middlewares[i],
                                                     validate |-> NoValidate]],
                                       handler |-> Decl[d].handler] >>]),
                     !.routeStack = Append(@, [path |-> Decl[d].path, method |-> methodLower,
                                               routeName |-> "manual_" \o ToString(t),
                                               config |-> d])]
        documented == IF Decl[d].openapi # "none"
                      THEN addOpenApiPath(pushed, Decl[d].path, methodLower,
                                          Decl[d].openapi, NoValidate)
                      ELSE pushed
    IN  IF methodLower \notin RouterMethods THEN st
        ELSE IF Decl[d].handler = "notfn" THEN Throw(st, "HandlerNotFunction")
        ELSE autoGenerateOpenApiSpec(documented)

RECURSIVE addRouteVerbs(_, _, _, _)
addRouteVerbs(before, d, t, methods) ==
    Only({ IF methods = <<>> \/ st.err # "" THEN st
           ELSE addRouteVerbs(addRouteVerb(st, d, t, Head(methods)), d, t, Tail(methods)) :
           st \in {before} })

\* addRoute
addRoute(st, d, t) ==
    IF Decl[d].path = <<>> \/ Decl[d].handler = "none"
    THEN Throw(st, "PathAndHandlerRequired")
    ELSE addRouteVerbs(st, d, t, Decl[d].method)

\* (mutant) the schema map is replaced by one that holds the new schema only
addSchema_replacesAll(sch, name, schema) == MapSet(EmptyMap, name, schema)

\* addSchema: openApiSpec.components.schemas[name] = schema
addSchema(sch, name, schema) == MapSet(sch, name, schema)

----------------------------------------------------------------------------
(* The state machine: one action per exported operation.  The caller       *)
(* serializes registration, reload and removal, so each call is one step;  *)
(* only loadRoutesFromDir runs its loads concurrently.                     *)

NoFile == File("", <<>>, "")

\* the call just made: the operation, its arguments (the file, the route name
\* and the declaration or plugin it was about), whether the call before it was the
\* same operation, and the error it threw ("" when it returned)
Last(op, file, name, decl, err) ==
    [op |-> op, file |-> file, name |-> name, decl |-> decl, err |-> err,
     again |-> (last.op = op), count |-> 0, files |-> {},
     pluginsBefore |-> {}, routesBefore |-> {}]

\* a request part: req.body may be absent (undefined); an object has fields
Absent == [present |-> FALSE, fields |-> {}]
Object(fields) == [present |-> TRUE, fields |-> fields]

\* the parts of openApiSpec written once, at construction (lines 36-45, 49-109)
InitialDocBase ==
    [info            |-> [title |-> "API", version |-> "1.0.0"],
     servers         |-> <<"http://localhost:3000">>,
     securitySchemes |-> {"bearerAuth", "apiKeyAuth"},
     responses       |-> {"UnauthorizedError", "NotFoundError", "ValidationError"}]

\* no request answered yet; status 404 is a request no mounted route matched,
\* 400 the answer of a validation middleware, 200 the answer of a handler
NoResp == [status |-> 0, path |-> <<>>, method |-> "", body |-> Absent,
           params |-> Absent, query |-> Absent,
           target |-> "none", chain |-> <<>>, handlerRan |-> FALSE]

\* no document heuristic called yet
NoResponses == [code \in {} |-> ""]

NoEntry == [customSpec |-> FALSE, summary |-> <<>>, description |-> <<>>, tags |-> <<>>,
            parameters |-> <<>>, responses |-> NoResponses, security |-> FALSE,
            requestBody |-> NoRequestBody]

\* the last call of a document heuristic: its arguments and what it returned
\* (out: a parameter list, responses: a response table, entry: a path entry)
NoHealth == [routes |-> 0, plugins |-> 0, middlewares |-> 0, openApiPaths |-> 0]

NoSpec == [paths |-> EmptyMap, tags |-> <<>>, schemas |-> EmptyMap]

\* the last call of a document heuristic or of a query: its arguments and what
\* it returned (out: a parameter list, responses: a response table, entry: a path
\* entry, count: a number, info: the records found, list: the records listed,
\* health: the counts of getHealthInfo, spec: the document)
NoCalc == [fn |-> "", segments |-> <<>>, path |-> <<>>, method |-> "", out |-> <<>>,
           responses |-> NoResponses, entry |-> NoEntry, count |-> 0, info |-> {},
           list |-> {}, health |-> NoHealth, spec |-> NoSpec]

\* no loadRoutesFromDir in progress
IdleLoads ==
    [phase |-> "idle", dirPath |-> "", tasks |-> EmptyMap,
     pluginsBefore |-> {}, routesBefore |-> {}]

\* what each file exports when the process starts
InitialDisk ==
    (FUsers :> "getA") @@ (FUsersV2 :> "multiB") @@ (FItems :> "customB")
    @@ (FOrders :> "fn") @@ (FBroken :> "badVerb") @@ (FText :> "text")
    @@ (FBase :> "withPlugA") @@ (FDep :> "withPlugB") @@ (FDepCopy :> "withPlugB")
    @@ (FBad :> "noHandler") @@ (FWait :> "withHang") @@ (FFine :> "postA")
    @@ (FCrash :> "fnCrash")

Init ==
    /\ routes = EmptyMap
    /\ middlewares = <<>>
    /\ plugins = EmptyMap
    /\ routeStack = <<>>
    /\ router = <<>>
    /\ paths = EmptyMap
    /\ tags = <<>>
    /\ schemas = EmptyMap
    /\ docBase = InitialDocBase
    /\ disk = InitialDisk
    /\ moduleCache = EmptyMap
    /\ now = 0
    /\ initLog = <<>>
    /\ loads = IdleLoads
    /\ resp = NoResp
    /\ last = [op |-> "init", file |-> NoFile, name |-> "", decl |-> "", err |-> "",
               again |-> FALSE, count |-> 0, files |-> {},
               pluginsBefore |-> {}, routesBefore |-> {}]
    /\ ops = 0
    /\ calc = NoCalc

\* the registries and the document become those of st
Becomes(st) ==
    /\ routes' = st.routes
    /\ middlewares' = st.middlewares
    /\ plugins' = st.plugins
    /\ routeStack' = st.routeStack
    /\ router' = st.router
    /\ paths' = st.paths
    /\ tags' = st.tags
    /\ moduleCache' = st.moduleCache
    /\ initLog' = st.initLog

Callable == loads.phase = "idle" /\ ops < MaxOps

\* a call of an operation ended in st; the answer to an earlier request says
\* nothing about the registries as they are now
Called(st, call) ==
    /\ Becomes(st)
    /\ last' = call
    /\ ops' = ops + 1
    /\ resp' = NoResp
    /\ UNCHANGED <<schemas, docBase, calc, disk, now, loads>>

\* the declaration a load of f imports, "" when the import fails
exportOf(st, dsk, f, t) ==
    IF importHits(st, f, t) \/ f \in DOMAIN dsk THEN importedModule(st, dsk, f, t) ELSE ""

\* the names reloadRoute and removeRoute are called with
\* the files loadRouteFile is called with one at a time
LoadFiles == {FUsers, FUsersV2, FItems, FOrders, FBroken, FBase, FDep}

RouteNames == { extractRouteName(f) : f \in LoadFiles } \cup {"plugin_pa", "ghost"}

LoadRouteFile(f) ==
    /\ Callable
    /\ \E st \in { loadRouteFile(Cur, disk, f, now) } :
           Called(st, Last("loadRouteFile", f, extractRouteName(f),
                           exportOf(Cur, disk, f, now), st.err))

RegisterPlugin(p) ==
    /\ Callable
    /\ \E st \in { registerPlugin(Cur, p, "direct") } :
           Called(st, Last("registerPlugin", NoFile, "direct", p, st.err))

AddRoute(d) ==
    /\ Callable
    /\ \E st \in { addRoute(Cur, d, now) } :
           Called(st, Last("addRoute", NoFile, "", d, st.err))

ReloadRoute(routeName) ==
    /\ Callable
    /\ \E st \in { reloadRoute(Cur, disk, routeName, now) } :
           LET file == IF routeName \in DOMAIN routes THEN routes[routeName].filePath
                       ELSE NoFile
           IN  Called(st, Last("reloadRoute", file, routeName,
                               exportOf(Cur, disk, file, now), st.err))

RemoveRoute(routeName) ==
    /\ Callable
    /\ \E st \in { removeRoute(Cur, routeName) } :
           Called(st, Last("removeRoute", NoFile, routeName, "", st.err))

\* generateOpenApiSpec
GenerateOpenApiSpec ==
    /\ Callable
    /\ \E st \in { autoGenerateOpenApiSpec(Cur) } :
           Called(st, Last("generateOpenApiSpec", NoFile, "", "", ""))

\* somebody edits a route module on disk
EditFile(f, d) ==
    /\ loads.phase = "idle"
    /\ disk[f] # d
    /\ disk' = [disk EXCEPT ![f] = d]
    /\ last' = Last("editFile", f, "", d, "")
    /\ resp' = NoResp
    /\ UNCHANGED <<routes, middlewares, plugins, routeStack, router, paths, tags,
                   schemas, docBase, calc, moduleCache, now, initLog, loads, ops>>

\* a millisecond passes
Tick ==
    /\ now < MaxTime
    /\ now' = now + 1
    /\ UNCHANGED <<routes, middlewares, plugins, routeStack, router, paths, tags,
                   schemas, docBase, calc, disk, moduleCache, initLog, loads, resp, last, ops>>

----------------------------------------------------------------------------
(* loadRoutesFromDir: every file's loadRouteFile is started at once and they  *)
(* run interleaved; a load runs from one await to the next without            *)
(* interruption.  A task is the position of one load.                         *)

MaxDirLoads == 2

NewTask == [pc |-> "import", idx |-> 0, chain |-> <<>>, decl |-> "", status |-> "pending"]

\* the load ended: its promise is rejected when it threw, fulfilled otherwise
Settled(after, task) ==
    Only({ [st |-> [st EXCEPT !.err = ""],
            task |-> [task EXCEPT !.pc = "settled",
                                  !.status = IF st.err # "" THEN "rejected"
                                             ELSE "fulfilled"]] :
           st \in {after} })

\* the load reached an await at position pc, unless it threw on the way
Awaiting(after, task, pc, idx) ==
    Only({ IF st.err # "" THEN Settled(st, task)
           ELSE [st |-> st, task |-> [task EXCEPT !.pc = pc, !.idx = idx]] :
           st \in {after} })

\* registerPlugin from the end of the initialize hook to its next await (lines
\* 531-546): the middleware, then the first nested route, or the record when the
\* plugin has no nested routes
loadAfterInitialize(st, task, filePath) ==
    LET p == Decl[task.decl].plugin
    IN  Only({ IF withMiddleware.err # "" THEN Settled(withMiddleware, task)
               ELSE IF Plugin[p].routes = <<>>
               THEN Awaiting(pluginRecord(withMiddleware, p, extractRouteName(filePath)),
                             task, "verbs", 0)
               ELSE Awaiting(registerObjectRoute(withMiddleware, Plugin[p].routes[1],
                                                 PluginSource(Plugin[p].name)),
                             task, "nested", 2) :
               withMiddleware \in { pluginMiddleware(st, p) } })

\* registerPlugin after the await of a nested route (lines 535-546): the next
\* nested route, or the record when there is none left
loadNestedRoute(st, task, filePath) ==
    LET p == Decl[task.decl].plugin
    IN  IF task.idx > Len(Plugin[p].routes)
        THEN Awaiting(pluginRecord(st, p, extractRouteName(filePath)), task, "verbs", 0)
        ELSE Awaiting(registerObjectRoute(st, Plugin[p].routes[task.idx],
                                          PluginSource(Plugin[p].name)),
                      task, "nested", task.idx + 1)

\* loadRouteFile from the resolution of the import to the next await (lines
\* 399-407, 442-467, 517-529)
loadImported(st, dsk, task, filePath, t) ==
    LET routeConfig == importedModule(st, dsk, filePath, t)
        imported == [st EXCEPT !.moduleCache = MapSet(@, importUrl(filePath, t), routeConfig)]
        began == [task EXCEPT !.decl = routeConfig,
                              !.chain = allMiddlewaresOf(imported, routeConfig)]
    IN  IF ~importHits(st, filePath, t) /\ filePath \notin DOMAIN dsk
        THEN Settled(Throw(st, "ModuleNotFound"), task)
        ELSE CASE Decl[routeConfig].kind = "function" ->
                    Settled(registerFunctionRoute(imported, routeConfig, filePath),
                            [task EXCEPT !.decl = routeConfig])
               [] Decl[routeConfig].kind = "object" ->
                    IF handlerMissing(routeConfig)
                    THEN Settled(Throw(imported, "MissingHandler"),
                                 [task EXCEPT !.decl = routeConfig])
                    ELSE IF Decl[routeConfig].plugin = "none"
                    THEN Settled(registerRouteVerbs(imported, routeConfig, filePath, began.chain),
                                 began)
                    ELSE IF Plugin[Decl[routeConfig].plugin].initialize # "none"
                    THEN Awaiting(pluginPrologue(imported, Decl[routeConfig].plugin),
                                  began, "afterInit", 0)
                    ELSE Only({ IF initialized.err # "" THEN Settled(initialized, began)
                                ELSE loadAfterInitialize(initialized, began, filePath) :
                                initialized \in { pluginPrologue(imported,
                                                                 Decl[routeConfig].plugin) } })
               [] OTHER -> Settled(Throw(imported, "InvalidExport"),
                                   [task EXCEPT !.decl = routeConfig])

\* one load of a directory load runs up to its next await
loadSegment(st, dsk, task, filePath, t) ==
    CASE task.pc = "import"    -> loadImported(st, dsk, task, filePath, t)
      [] task.pc = "afterInit" -> loadAfterInitialize(st, task, filePath)
      [] task.pc = "nested"    -> loadNestedRoute(st, task, filePath)
      [] task.pc = "verbs"     ->
             Settled(registerRouteVerbs(st, task.decl, filePath, task.chain), task)

\* (mutant) the count stops at the first failure
errorCount_firstOnly(tasks) ==
    IF \E f \in DOMAIN tasks : tasks[f].status = "rejected" THEN 1 ELSE 0

\* errorCount of loadRoutesFromDir (lines 342-352)
errorCount(tasks) == Cardinality({ f \in DOMAIN tasks : tasks[f].status = "rejected" })

DirLast(op, dirPath, err, count, files) ==
    [op |-> op, file |-> NoFile, name |-> dirPath, decl |-> "", err |-> err,
     again |-> (last.op = op), count |-> count, files |-> files,
     pluginsBefore |-> loads.pluginsBefore, routesBefore |-> loads.routesBefore]

\* loadRoutesFromDir up to Promise.allSettled (lines 337-340): the files are
\* listed and every load is started; a listing that fails ends the call
StartLoadRoutesFromDir(dirPath) ==
    /\ loads.phase = "idle"
    /\ ops < MaxDirLoads
    /\ LET listed == getJsFiles(dirPath)
       IN  IF listed.err # ""
           THEN /\ loads' = loads
                /\ last' = DirLast("loadRoutesFromDir", dirPath, listed.err, 0, {})
           ELSE /\ loads' = [phase |-> "loading", dirPath |-> dirPath,
                             tasks |-> [f \in SeqToSet(listed.files) |-> NewTask],
                             pluginsBefore |-> DOMAIN plugins, routesBefore |-> DOMAIN routes]
                /\ last' = Last("startLoadRoutesFromDir", NoFile, dirPath, "", "")
    /\ ops' = ops + 1
    /\ resp' = NoResp
    /\ UNCHANGED <<routes, middlewares, plugins, routeStack, router, paths, tags,
                   schemas, docBase, calc, disk, moduleCache, now, initLog>>

\* the load awaits an initialize hook whose promise never settles (line 528)
Stuck(task) ==
    /\ task.status = "pending"
    /\ task.pc = "afterInit"
    /\ Plugin[Decl[task.decl].plugin].initialize = "hangs"

\* one of the pending loads runs up to its next await
LoadStep(f) ==
    /\ loads.phase = "loading"
    /\ f \in DOMAIN loads.tasks
    /\ loads.tasks[f].status = "pending"
    /\ ~Stuck(loads.tasks[f])
    /\ \E done \in { loadSegment(Cur, disk, loads.tasks[f], f, now) } :
           /\ Becomes(done.st)
           /\ loads' = [loads EXCEPT !.tasks[f] = done.task]
    /\ last' = Last("loadStep", f, extractRouteName(f), loads.tasks[f].decl, "")
    /\ UNCHANGED <<schemas, docBase, calc, disk, now, resp, ops>>

\* (mutant) the join is Promise.all: it ends at the first rejection
FinishLoadRoutesFromDir_atFirstRejection ==
    /\ loads.phase = "loading"
    /\ \/ \A f \in DOMAIN loads.tasks : loads.tasks[f].status # "pending"
       \/ \E f \in DOMAIN loads.tasks : loads.tasks[f].status = "rejected"
    /\ last' = DirLast("loadRoutesFromDir", loads.dirPath,
                       IF errorCount(loads.tasks) > 0 THEN "LoadFailed" ELSE "",
                       errorCount(loads.tasks), DOMAIN loads.tasks)
    /\ loads' = IdleLoads
    /\ UNCHANGED <<routes, middlewares, plugins, routeStack, router, paths, tags,
                   schemas, docBase, calc, disk, moduleCache, now, initLog, resp, ops>>

\* loadRoutesFromDir after Promise.allSettled (lines 342-358)
FinishLoadRoutesFromDir ==
    /\ loads.phase = "loading"
    /\ \A f \in DOMAIN loads.tasks : loads.tasks[f].status # "pending"
    /\ last' = DirLast("loadRoutesFromDir", loads.dirPath,
                       IF errorCount(loads.tasks) > 0 THEN "LoadFailed" ELSE "",
                       errorCount(loads.tasks), DOMAIN loads.tasks)
    /\ loads' = IdleLoads
    /\ UNCHANGED <<routes, middlewares, plugins, routeStack, router, paths, tags,
                   schemas, docBase, calc, disk, moduleCache, now, initLog, resp, ops>>

\* validateSchema: a schema without a validate function accepts everything
validateSchema(data, schema) ==
    IF Schema[schema].hasValidate
    THEN Schema[schema].required \subseteq data.fields
    ELSE TRUE

\* the middleware createValidationMiddleware returns: TRUE when it calls next(),
\* FALSE when it answers 400; a part is validated when its schema is declared
\* and the request has the part
validationPasses(validate, body, params, query) ==
    /\ ~(validate.body # "none" /\ body.present /\ ~validateSchema(body, validate.body))
    /\ ~(validate.params # "none" /\ params.present /\ ~validateSchema(params, validate.params))
    /\ ~(validate.query # "none" /\ query.present /\ ~validateSchema(query, validate.query))

\* a route of an express Router handles the request's path and verb
RouteMatches(r, path, method) ==
    \/ /\ r.path = path
       /\ \/ r.method = method
          \/ r.method = "all"
          \/ (method = "head" /\ r.method = "get")
    \/ /\ r.method = "use"
       /\ r.path = path \/ StartsWith(path, r.path \o <<"/">>)

\* the routes of the main router in the order express tries them: layer by
\* layer in mount order, route by route inside a mounted sub-router
RECURSIVE Flatten(_)
Flatten(layers) ==
    IF layers = <<>> THEN <<>> ELSE Head(layers).routes \o Flatten(Tail(layers))

\* the route that takes the request: the first match in mount order
dispatch(layers, path, method) ==
    LET Hit(r) == RouteMatches(r, path, method)
        hits == SelectSeq(Flatten(layers), Hit)
    IN  IF hits = <<>> THEN <<>> ELSE <<Head(hits)>>

\* the chain of the route runs in order, every pre-handler calling next() unless
\* it is a validation middleware that answers 400; then the handler answers
answer(layers, path, method, body, params, query) ==
    LET hit == dispatch(layers, path, method)
        req == [NoResp EXCEPT !.path = path, !.method = method, !.body = body,
                              !.params = params, !.query = query]
    IN  IF hit = <<>> THEN [req EXCEPT !.status = 404]
        ELSE LET route == hit[1]
                 Rejects(mw) == mw.kind = "validation"
                                /\ ~validationPasses(mw.validate, body, params, query)
                 rejected == SelectSeq(route.chain, Rejects) # <<>>
             IN  [req EXCEPT !.target = route.handler,
                             !.chain = route.chain,
                             !.status = IF rejected THEN 400 ELSE 200,
                             !.handlerRan = ~rejected]

RequestPaths == {PathA, PathB}
RequestVerbs == {"get", "post"}
\* the body and the query of a request
RequestParts == { <<Absent, Object({})>>, <<Object({}), Object({})>>,
                  <<Object({FieldName}), Object({FieldName})>> }

\* a request arrives at the main router; req.params and req.query are always
\* objects, and the paths here carry no express parameter
Request(path, method, body, query) ==
    /\ loads.phase = "idle"
    /\ resp' = answer(router, path, method, body, Object({}), query)
    /\ UNCHANGED <<routes, middlewares, plugins, routeStack, router, paths, tags,
                   schemas, docBase, calc, disk, moduleCache, now, initLog, loads, last, ops>>

AddRouteDecls == {"getA", "postA", "customB", "badVerb", "noHandler"}

\* the plugins registerPlugin is called with
DirectPlugins == {"plugA", "plugB", "plugNoName", "plugBadInit"}

Next ==
    \/ \E f \in LoadFiles : LoadRouteFile(f)
    \/ \E p \in DirectPlugins : RegisterPlugin(p)
    \/ \E d \in AddRouteDecls : AddRoute(d)
    \/ \E n \in RouteNames : ReloadRoute(n)
    \/ \E n \in RouteNames : RemoveRoute(n)
    \/ GenerateOpenApiSpec

Spec == Init /\ [][Next]_vars

\* hot reload: two route modules are loaded, edited, reloaded and requested
ReloadFiles == {FUsers, FItems}
ReloadEdits == {"getA", "getA2", "postA"}

NextReload ==
    \/ \E f \in ReloadFiles : LoadRouteFile(f)
    \/ \E d \in ReloadEdits : EditFile(FUsers, d)
    \/ Tick
    \/ \E n \in {"users", "items", "ghost"} : ReloadRoute(n)
    \/ \E path \in RequestPaths, method \in RequestVerbs, parts \in RequestParts :
            Request(path, method, parts[1], parts[2])

SpecReload == Init /\ [][NextReload]_vars

\* the document: routes are loaded, reloaded and removed, the document is
\* regenerated and schemas are added
SchemaNames == {"User", "Item"}
SchemaValues == {"schemaV1", "schemaV2"}

AddSchema(name, schema) ==
    /\ Callable
    /\ schemas' = addSchema(schemas, name, schema)
    /\ last' = Last("addSchema", NoFile, name, schema, "")
    /\ ops' = ops + 1
    /\ UNCHANGED <<routes, middlewares, plugins, routeStack, router, paths, tags, docBase,
                   disk, moduleCache, now, initLog, loads, resp, calc>>

DocumentFiles == {FItems, FBroken}

NextDocument ==
    \/ \E f \in DocumentFiles : LoadRouteFile(f)
    \/ \E n \in {"items", "broken"} : ReloadRoute(n)
    \/ \E n \in {"items", "broken"} : RemoveRoute(n)
    \/ GenerateOpenApiSpec
    \/ \E name \in SchemaNames, schema \in SchemaValues : AddSchema(name, schema)

SpecDocument == Init /\ [][NextDocument]_vars

\* a module with openapi metadata is loaded, edited (with and without
\* metadata), reloaded and removed, and the document is regenerated
CustomEdits == {"getA", "customB", "customB2"}

NextCustom ==
    \/ LoadRouteFile(FItems)
    \/ \E d \in CustomEdits : EditFile(FItems, d)
    \/ Tick
    \/ ReloadRoute("items")
    \/ RemoveRoute("items")
    \/ GenerateOpenApiSpec

SpecCustom == Init /\ [][NextCustom]_vars

\* getRoutesCount
getRoutesCount == Cardinality(DOMAIN routes)

\* getPluginsCount
getPluginsCount == Cardinality(DOMAIN plugins)

\* getMiddlewaresCount
getMiddlewaresCount == Cardinality(DOMAIN middlewares)

\* getRouteInfo: routes.get(routeName), nothing when the name is unknown
getRouteInfo(routeName) ==
    IF routeName \in DOMAIN routes THEN {routes[routeName]} ELSE {}

\* getPluginInfo
getPluginInfo(pluginName) ==
    IF pluginName \in DOMAIN plugins THEN {plugins[pluginName]} ELSE {}

\* listRoutes
listRoutes ==
    { [name |-> name, filePath |-> routes[name].filePath, type |-> routes[name].type,
       hasConfig |-> (routes[name].type = "object")] : name \in DOMAIN routes }

\* listPlugins
listPlugins ==
    { [name |-> plugins[name].name, version |-> plugins[name].version,
       dependencies |-> plugins[name].dependencies,
       routeName |-> plugins[name].routeName] : name \in DOMAIN plugins }

\* (mutant) the routes are counted by their route-stack records
getHealthInfo_countsRecords ==
    [routes |-> Len(routeStack), plugins |-> getPluginsCount,
     middlewares |-> getMiddlewaresCount,
     openApiPaths |-> Cardinality({ k[1] : k \in DOMAIN paths })]

\* getHealthInfo; openApiPaths is Object.keys(openApiSpec.paths).length
getHealthInfo ==
    [routes |-> getRoutesCount, plugins |-> getPluginsCount,
     middlewares |-> getMiddlewaresCount,
     openApiPaths |-> Cardinality({ k[1] : k \in DOMAIN paths })]

\* getSpec
getSpec == [paths |-> paths, tags |-> tags, schemas |-> schemas]

\* loadRouteFile, registerObjectRoute and registerPlugin called directly (all
\* three are exported)
MaxCalls == 2

DirectFiles == {FUsers, FText, FBad, FCrash}

\* the plugins whose registration returns
RegisterPlugins == { p \in DOMAIN Plugin : Plugin[p].initialize # "hangs" }

RegisterDecls == { d \in DeclIds : /\ Decl[d].kind = "object"
                                   /\ Decl[d].plugin \in RegisterPlugins \cup {"none"} }

RegisterFiles == {FUsers, FItems}

RegisterObjectRoute(d, f) ==
    /\ loads.phase = "idle"
    /\ ops < MaxCalls
    /\ \E st \in { registerObjectRoute(Cur, d, f) } :
           Called(st, Last("registerObjectRoute", f, extractRouteName(f), d, st.err))

\* a query: it returns a value and assigns to nothing
Read(name, result) ==
    /\ loads.phase = "idle"
    /\ ops < MaxCalls
    /\ calc' = result
    /\ last' = Last(result.fn, NoFile, name, "", "")
    /\ ops' = ops + 1
    /\ UNCHANGED <<routes, middlewares, plugins, routeStack, router, paths, tags, schemas, docBase,
                   disk, moduleCache, now, initLog, loads, resp>>

QueryNames == {"users", "items", "pa", "ghost"}

GetRoutesCount == Read("", [NoCalc EXCEPT !.fn = "getRoutesCount", !.count = getRoutesCount])

GetPluginsCount == Read("", [NoCalc EXCEPT !.fn = "getPluginsCount", !.count = getPluginsCount])

GetMiddlewaresCount ==
    Read("", [NoCalc EXCEPT !.fn = "getMiddlewaresCount", !.count = getMiddlewaresCount])

GetRouteInfo(routeName) ==
    Read(routeName, [NoCalc EXCEPT !.fn = "getRouteInfo", !.info = getRouteInfo(routeName)])

GetPluginInfo(pluginName) ==
    Read(pluginName, [NoCalc EXCEPT !.fn = "getPluginInfo", !.info = getPluginInfo(pluginName)])

ListRoutes == Read("", [NoCalc EXCEPT !.fn = "listRoutes", !.list = listRoutes])

ListPlugins == Read("", [NoCalc EXCEPT !.fn = "listPlugins", !.list = listPlugins])

GetHealthInfo == Read("", [NoCalc EXCEPT !.fn = "getHealthInfo", !.health = getHealthInfo])

GetSpec == Read("", [NoCalc EXCEPT !.fn = "getSpec", !.spec = getSpec])

NextRegister ==
    \/ \E d \in RegisterDecls, f \in RegisterFiles : RegisterObjectRoute(d, f)
    \/ \E p \in RegisterPlugins : ops < MaxCalls /\ RegisterPlugin(p)
    \/ \E f \in DirectFiles : ops < MaxCalls /\ LoadRouteFile(f)
    \/ GetRoutesCount
    \/ GetPluginsCount
    \/ GetMiddlewaresCount
    \/ \E routeName \in QueryNames : GetRouteInfo(routeName)
    \/ \E pluginName \in QueryNames : GetPluginInfo(pluginName)
    \/ ListRoutes
    \/ ListPlugins
    \/ GetHealthInfo
    \/ GetSpec

SpecRegister == Init /\ [][NextRegister]_vars

\* directory loads
NextDir ==
    \/ \E dirPath \in Dirs : StartLoadRoutesFromDir(dirPath)
    \/ \E f \in Files : LoadStep(f)
    \/ FinishLoadRoutesFromDir

SpecDir == Init /\ [][NextDir]_vars

\* the event loop runs every continuation that is ready: a load whose awaited
\* promise settled goes on, and so does loadRoutesFromDir after allSettled
\* the directories of the join: one with a failing module among good ones, one
\* with a plugin dependency between modules, one with a module that hangs
JoinDirs == {"mixed", "plugins", "stuck"}

NextJoin ==
    \/ \E dirPath \in JoinDirs : StartLoadRoutesFromDir(dirPath)
    \/ \E f \in Files : LoadStep(f)
    \/ FinishLoadRoutesFromDir

SpecDirFair ==
    /\ Init /\ [][NextJoin]_vars
    /\ WF_vars(\E f \in Files : LoadStep(f))
    /\ WF_vars(FinishLoadRoutesFromDir)

----------------------------------------------------------------------------
(* The document heuristics called on their own: extractParameters,         *)
(* generateDefaultResponses and requiresAuth are exported (lines 939-945). *)

MaxSegments == 3

\* the segments the paths are made of: plain words and {name} tokens
Segments ==
    { <<"u", "s", "e", "r", "s">>,
      <<"{", "i", "d", "}">>,
      <<"{", "p", "o", "s", "t", "I", "d", "}">>,
      <<"{", "u", "s", "e", "r", "I", "D", "}">>,
      <<"{", "s", "l", "u", "g", "}">>,
      <<"p", "i", "n", "g">>,
      <<"p", "i", "n", "g", "s">> }

SegmentLists == UNION { [1..n -> Segments] : n \in 1..MaxSegments }

\* the path with the given segments: /users/{id}
RECURSIVE JoinPath(_)
JoinPath(segments) ==
    IF segments = <<>> THEN <<>>
    ELSE <<"/">> \o Head(segments) \o JoinPath(Tail(segments))

\* one call of a heuristic; the heuristics keep no state, so a behaviour is one call
Pure(op) ==
    /\ calc = NoCalc
    /\ calc' = op
    /\ UNCHANGED <<routes, middlewares, plugins, routeStack, router, paths, tags, schemas, docBase,
                   disk, moduleCache, now, initLog, loads, resp, last, ops>>

ExtractParameters(segments) ==
    Pure([NoCalc EXCEPT !.fn = "extractParameters",
                        !.segments = segments,
                        !.path = JoinPath(segments),
                        !.out = extractParameters(JoinPath(segments))])

\* the verbs generateDefaultResponses is called with: the five it has responses
\* for and three it has none for
ResponseVerbs == HttpVerbsUpper \cup {"HEAD", "OPTIONS", "USE"}

GenerateDefaultResponses(method) ==
    Pure([NoCalc EXCEPT !.fn = "generateDefaultResponses",
                        !.method = method,
                        !.responses = generateDefaultResponses(method)])

\* the verbs of the route-stack records an entry is generated for
EntryVerbs == {"get", "post"}

\* the entry autoGenerateOpenApiSpec generates for a route-stack record
GenerateEntry(segments, method) ==
    Pure([NoCalc EXCEPT !.fn = "autoGenerateOpenApiSpec",
                        !.segments = segments,
                        !.path = JoinPath(segments),
                        !.method = method,
                        !.entry = AutoEntry(JoinPath(segments), method)])

NextDoc ==
    \/ \E segments \in SegmentLists : ExtractParameters(segments)
    \/ \E segments \in SegmentLists, method \in EntryVerbs : GenerateEntry(segments, method)
    \/ \E method \in ResponseVerbs : GenerateDefaultResponses(method)

SpecDoc == Init /\ [][NextDoc]_vars

----------------------------------------------------------------------------
(* Vocabulary of the properties.                                           *)

CustomKeys == { k \in DOMAIN paths : paths[k].customSpec }

\* the path+verb pairs an object declaration declares
VerbKeys(d) ==
    { <<Decl[d].path, ToLowerCase(Decl[d].method[i])>> : i \in 1..Len(Decl[d].method) }

\* the path+verb pairs of the route-stack records attributed to a name
StackKeys(stack, routeName) ==
    { <<stack[i].path, stack[i].method>> :
        i \in { j \in 1..Len(stack) : stack[j].routeName = routeName } }

\* the path+verb pairs of the route-stack records attributed to any other name
OtherStackKeys(stack, routeName) ==
    { <<stack[i].path, stack[i].method>> :
        i \in { j \in 1..Len(stack) : stack[j].routeName # routeName } }

\* the nested routes of the plugin a declaration carries
NestedDecls(d) ==
    IF d \in DeclIds /\ Decl[d].kind = "object" /\ Decl[d].plugin # "none"
    THEN SeqToSet(Plugin[Decl[d].plugin].routes) ELSE {}

\* the object declarations a call hands to registerObjectRoute or addRoute
CallDecls(call) ==
    CASE call.op \in {"loadRouteFile", "reloadRoute", "addRoute"} /\ call.decl \in DeclIds ->
           { d \in {call.decl} : Decl[d].kind = "object" } \cup NestedDecls(call.decl)
      [] call.op = "registerPlugin" -> SeqToSet(Plugin[call.decl].routes)
      [] OTHER -> {}

\* the call supplies openapi metadata for path+verb k
Redocuments(call, k) ==
    \E d \in CallDecls(call) : Decl[d].openapi # "none" /\ k \in VerbKeys(d)

\* the call was a load of an object declaration that returned
LoadedObject(call) ==
    /\ call.op = "loadRouteFile"
    /\ call.err = ""
    /\ call.decl \in DeclIds
    /\ Decl[call.decl].kind = "object"

----------------------------------------------------------------------------
(* C2.  Custom preservation: a route registered with openapi metadata gets *)
(* a document entry flagged custom; no later call that does not itself     *)
(* supply openapi metadata for that path+verb changes the entry; and an    *)
(* unrelated route registered later gains its own auto-generated entry.    *)
C2_CustomPreservation ==
    [][ /\ \A k \in CustomKeys :
              ~Redocuments(last', k) => k \in DOMAIN paths' /\ paths'[k] = paths[k]
        /\ LoadedObject(last') =>
              \A k \in VerbKeys(last'.decl) :
                  /\ k \in DOMAIN paths'
                  /\ Decl[last'.decl].openapi # "none" => paths'[k].customSpec
                  /\ (k \notin CustomKeys /\ ~Redocuments(last', k)) =>
                        paths'[k] = AutoEntry(k[1], k[2]) ]_vars

\* a route without metadata was loaded after a custom entry was made, and the
\* document holds the custom entry next to the new route's auto entry
C2_Witness ==
    /\ LoadedObject(last)
    /\ Decl[last.decl].openapi = "none"
    /\ CustomKeys # {}
    /\ \A k \in VerbKeys(last.decl) :
          k \in DOMAIN paths /\ ~paths[k].customSpec /\ k \notin VerbKeys("customB")
    /\ "items" \in DOMAIN routes
    /\ <<PathB, "get">> \in CustomKeys

----------------------------------------------------------------------------
(* C3.  No stale auto entry: every document entry that is not custom is    *)
(* the path+verb of a route held in the route registry.                    *)
C3_NoStaleAutoEntry ==
    \A k \in DOMAIN paths :
        ~paths[k].customSpec =>
            \E routeName \in DOMAIN routes :
                \E i \in 1..Len(routes[routeName].router) :
                    k = <<routes[routeName].router[i].path, routes[routeName].router[i].method>>

----------------------------------------------------------------------------
(* C4.  Removal: after removeRoute(name) returns, the registry and the     *)
(* route stack hold nothing under name, the document holds no auto entry   *)
(* whose route-stack records were all of that name, and every entry that   *)
(* is custom or has a route-stack record of another name is as it was.     *)
C4_Removal ==
    [][ (last'.op = "removeRoute" /\ last'.err = "") =>
          LET name == last'.name
          IN  /\ name \notin DOMAIN routes'
              /\ StackKeys(routeStack', name) = {}
              /\ \A k \in DOMAIN paths :
                    (~paths[k].customSpec /\ k \notin OtherStackKeys(routeStack, name))
                        => k \notin DOMAIN paths'
              /\ \A k \in DOMAIN paths :
                    (paths[k].customSpec \/ k \in OtherStackKeys(routeStack, name))
                        => k \in DOMAIN paths' /\ paths'[k] = paths[k]
              /\ \A other \in DOMAIN routes \ {name} :
                    other \in DOMAIN routes' /\ routes'[other] = routes[other] ]_vars

\* a route was removed while the registry and the document still hold another
C4_Witness ==
    /\ last.op = "removeRoute"
    /\ last.err = ""
    /\ last.name \notin DOMAIN routes
    /\ DOMAIN routes # {}
    /\ \E k \in DOMAIN paths : ~paths[k].customSpec

----------------------------------------------------------------------------
(* C7.  Plugin dependency ordering: registerPlugin for a named plugin with *)
(* a dependency that is not in the plugin registry fails with the          *)
(* dependency-not-found error and records nothing; with every dependency   *)
(* in the registry the plugin is recorded next to them.                    *)
DependenciesMet(p) ==
    \A i \in 1..Len(Plugin[p].dependencies) : Plugin[p].dependencies[i] \in DOMAIN plugins

\* a plugin declaration with a name, a hook that returns, a callable middleware
\* (or none) and nested routes that register
SoundPlugin(p) ==
    /\ Plugin[p].name # ""
    /\ Plugin[p].initialize # "throws"
    /\ Plugin[p].middleware # "notfn"
    /\ \A d \in SeqToSet(Plugin[p].routes) :
          /\ ~handlerMissing(d)
          /\ Decl[d].plugin = "none"
          /\ \A k \in VerbKeys(d) : k[2] \in RouterMethods

C7_PluginDependencyOrdering ==
    [][ last'.op = "registerPlugin" =>
          LET p == last'.decl
          IN  /\ (Plugin[p].name # "" /\ ~DependenciesMet(p)) =>
                    /\ last'.err = "DependencyNotFound"
                    /\ plugins' = plugins
                    /\ middlewares' = middlewares
                    /\ initLog' = initLog
              /\ (SoundPlugin(p) /\ DependenciesMet(p)) =>
                    /\ last'.err = ""
                    /\ DOMAIN plugins' = DOMAIN plugins \cup {Plugin[p].name}
                    /\ plugins'[Plugin[p].name].dependencies = Plugin[p].dependencies
                    /\ SeqToSet(Plugin[p].dependencies) \subseteq DOMAIN plugins' ]_vars

\* plugin pb, which depends on pa, was registered after pa and both are recorded
C7_Witness ==
    /\ last.op = "registerPlugin"
    /\ last.decl = "plugB"
    /\ last.err = ""
    /\ {"pa", "pb"} \subseteq DOMAIN plugins

----------------------------------------------------------------------------
(* C9.  Idempotence of regeneration: a generateOpenApiSpec call that       *)
(* directly follows another leaves the document as the first one left it.  *)
C9_RegenerationIdempotent ==
    [][ (last'.op = "generateOpenApiSpec" /\ last'.again) =>
            /\ paths' = paths
            /\ tags' = tags
            /\ schemas' = schemas ]_vars

\* the document was regenerated twice in a row and holds a custom and an auto entry
C9_Witness ==
    /\ last.op = "generateOpenApiSpec"
    /\ last.again
    /\ CustomKeys # {}
    /\ \E k \in DOMAIN paths : ~paths[k].customSpec

----------------------------------------------------------------------------
(* C5.  Reload semantics: after reloadRoute(name) returns, the descriptor  *)
(* under name carries the file it was loaded from and the declaration the  *)
(* file holds on disk now.                                                 *)
C5_ReloadReflectsDisk ==
    (last.op = "reloadRoute" /\ last.err = "") =>
        /\ last.name \in DOMAIN routes
        /\ routes[last.name].filePath = last.file
        /\ LET d == disk[last.file]
           IN  IF Decl[d].kind = "object"
               THEN routes[last.name].type = "object" /\ routes[last.name].config = d
               ELSE routes[last.name].type = "function"
                    /\ routes[last.name].router = functionRouter(d)

----------------------------------------------------------------------------
(* C6.  Hot reload takes effect for requests: after reloadRoute(name)      *)
(* returns for a route registered again under the same path and verb, a    *)
(* request for that path and verb goes to the handler of the declaration   *)
(* just loaded.                                                            *)
TimesStacked(routeName, k) ==
    Cardinality({ i \in 1..Len(routeStack) :
                    /\ routeStack[i].routeName = routeName
                    /\ <<routeStack[i].path, routeStack[i].method>> = k })

C6_ReloadServesNewHandler ==
    ( /\ last.op = "reloadRoute"
      /\ last.err = ""
      /\ last.decl \in DeclIds
      /\ Decl[last.decl].kind = "object"
      /\ resp.status # 0
      /\ <<resp.path, resp.method>> \in VerbKeys(last.decl)
      /\ TimesStacked(last.name, <<resp.path, resp.method>>) >= 2 )
    => resp.target = Decl[last.decl].handler

----------------------------------------------------------------------------
(* C8.  Request-time validation: the handler of a route with a validation  *)
(* middleware runs only if every schema the route declares (body, params,  *)
(* query) accepts the corresponding part of the request.                   *)
Accepted(validate, body, params, query) ==
    /\ validate.body # "none" => (body.present /\ validateSchema(body, validate.body))
    /\ validate.params # "none" => (params.present /\ validateSchema(params, validate.params))
    /\ validate.query # "none" => (query.present /\ validateSchema(query, validate.query))

C8_HandlerOnlyAfterValidation ==
    resp.handlerRan =>
        \A i \in 1..Len(resp.chain) :
            resp.chain[i].kind = "validation" =>
                Accepted(resp.chain[i].validate, resp.body, resp.params, resp.query)

----------------------------------------------------------------------------
(* Vocabulary of the directory loads.  A module is judged against the        *)
(* plugin registry as it was when loadRoutesFromDir was called.             *)

\* a module that registers whenever the dependencies of its plugin are met
SoundDecl(d) ==
    /\ d \in DeclIds
    /\ CASE Decl[d].kind = "function" -> ~Decl[d].fnThrows
          [] Decl[d].kind = "object" ->
                /\ ~handlerMissing(d)
                /\ \A k \in VerbKeys(d) : k[2] \in RouterMethods
                /\ Decl[d].plugin # "none" => SoundPlugin(Decl[d].plugin)
          [] OTHER -> FALSE

\* the plugin names the plugin of a declaration depends on
DependenciesOf(d) ==
    IF d \in DeclIds /\ Decl[d].kind = "object" /\ Decl[d].plugin # "none"
    THEN SeqToSet(Plugin[Decl[d].plugin].dependencies) ELSE {}

\* the plugin names the modules in a set of files declare
PluginNamesOf(files) ==
    { Plugin[Decl[disk[f]].plugin].name :
        f \in { g \in files : Decl[disk[g]].kind = "object" /\ Decl[disk[g]].plugin # "none" } }

WellFormed(f, call) ==
    SoundDecl(disk[f]) /\ DependenciesOf(disk[f]) \subseteq call.pluginsBefore

\* a module that cannot register: it is unsound, or its plugin depends on a
\* plugin that neither is registered nor is declared by another module loaded
\* with it
Malformed(f, call) ==
    \/ ~SoundDecl(disk[f])
    \/ \E dependency \in DependenciesOf(disk[f]) :
          dependency \notin call.pluginsBefore \cup PluginNamesOf(call.files \ {f})

\* the path+verb pairs a module registers, nested plugin routes included
ModuleKeys(d) ==
    IF Decl[d].kind = "function"
    THEN { <<r.path, r.method>> : r \in SeqToSet(Decl[d].fnRoutes) }
    ELSE VerbKeys(d) \cup UNION { VerbKeys(n) : n \in NestedDecls(d) }

\* the names a module registers in the route registry
ModuleNames(f) ==
    {extractRouteName(f)}
    \cup (IF NestedDecls(disk[f]) # {}
          THEN {extractRouteName(PluginSource(Plugin[Decl[disk[f]].plugin].name))}
          ELSE {})

\* the verbs a declaration declares: one per route for a function module
PairsOf(d) == IF Decl[d].kind = "function" THEN Len(Decl[d].fnRoutes) ELSE Len(Decl[d].method)

\* the verb x declaration pairs of a set of modules, the declarations nested in
\* a module's plugin included
VerbDeclarationPairs(files) ==
    UNION { UNION { { <<f, d, i>> : i \in 1..PairsOf(d) } :
                    d \in {disk[f]} \cup NestedDecls(disk[f]) } : f \in files }

DirectoryLoaded(call) == call.op = "loadRoutesFromDir" /\ call.files # {}

MixedDirectory(call) ==
    /\ DirectoryLoaded(call)
    /\ \A f \in call.files : WellFormed(f, call) \/ Malformed(f, call)
    /\ \E f \in call.files : WellFormed(f, call)
    /\ \E f \in call.files : Malformed(f, call)

WellFormedDirectory(call) ==
    /\ DirectoryLoaded(call)
    /\ \A f \in call.files : WellFormed(f, call)
----------------------------------------------------------------------------
(* C1.  A directory that mixes well-formed and malformed modules:          *)
(* loadRoutesFromDir fails, the count it reports is the number of          *)
(* malformed modules, every well-formed module's route is in the route     *)
(* registry and its path+verb pairs are in the document, and the routes    *)
(* registered before the call are still registered.                        *)
C1_MixedDirectoryLoad ==
    MixedDirectory(last) =>
        /\ last.err = "LoadFailed"
        /\ last.count = Cardinality({ f \in last.files : Malformed(f, last) })
        /\ \A f \in last.files :
              WellFormed(f, last) =>
                  /\ ModuleNames(f) \subseteq DOMAIN routes
                  /\ ModuleKeys(disk[f]) \subseteq DOMAIN paths
                  /\ ModuleKeys(disk[f]) \subseteq
                         UNION { StackKeys(routeStack, n) : n \in ModuleNames(f) }
        /\ last.routesBefore \subseteq DOMAIN routes

\* a directory with two malformed modules and a well-formed one was loaded
C1_Witness ==
    /\ MixedDirectory(last)
    /\ Cardinality({ f \in last.files : Malformed(f, last) }) = 2
    /\ \E f \in last.files : WellFormed(f, last) /\ extractRouteName(f) \in DOMAIN routes

----------------------------------------------------------------------------
(* C10.  A directory of well-formed modules only: loadRoutesFromDir        *)
(* succeeds and the route registry holds the names it held before and the  *)
(* names of the loaded modules, one per distinct derived name (and one per *)
(* plugin that has nested routes); getRoutesCount() counts those names.    *)
C10_RouteCountIsNames ==
    WellFormedDirectory(last) =>
        /\ last.err = ""
        /\ last.count = 0
        /\ DOMAIN routes = last.routesBefore \cup UNION { ModuleNames(f) : f \in last.files }
        /\ getRoutesCount =
              Cardinality(last.routesBefore \cup UNION { ModuleNames(f) : f \in last.files })

\* a directory of three well-formed modules was loaded into an empty registry
\* and left fewer names than it has verb x declaration pairs
C10_Witness ==
    /\ WellFormedDirectory(last)
    /\ last.routesBefore = {}
    /\ Cardinality(last.files) = 3
    /\ getRoutesCount < Cardinality(VerbDeclarationPairs(last.files))

\* C10 as stated: after a directory of well-formed modules only is loaded into
\* an empty registry, getRoutesCount() is the number of verb x declaration pairs
C10_RouteCountIsVerbPairs ==
    (WellFormedDirectory(last) /\ last.routesBefore = {}) =>
        /\ last.err = ""
        /\ getRoutesCount = Cardinality(VerbDeclarationPairs(last.files))
----------------------------------------------------------------------------
(* C11.  Path-parameter extraction: extractParameters returns one required *)
(* path parameter per {name} token of the path, in path order, typed       *)
(* integer if and only if the name contains "id" compared                  *)
(* case-insensitively, and string otherwise.                               *)
LowerChar(c) ==
    IF \E i \in 1..26 : UpperLetters[i] = c
    THEN LowerLetters[CHOOSE i \in 1..26 : UpperLetters[i] = c]
    ELSE c

IsToken(segment) ==
    Len(segment) > 2 /\ Head(segment) = "{" /\ segment[Len(segment)] = "}"

TokenName(segment) == SubSeq(segment, 2, Len(segment) - 1)

ContainsIdAnyCase(name) ==
    Includes([i \in 1..Len(name) |-> LowerChar(name[i])], <<"i", "d">>)

C11_PathParameters ==
    calc.fn = "extractParameters" =>
        LET tokens == SelectSeq(calc.segments, IsToken)
        IN  /\ Len(calc.out) = Len(tokens)
            /\ \A i \in 1..Len(tokens) :
                  /\ calc.out[i].name = TokenName(tokens[i])
                  /\ calc.out[i].in = "path"
                  /\ calc.out[i].required
                  /\ calc.out[i].type \in {"integer", "string"}
                  /\ calc.out[i].type = "integer" <=> ContainsIdAnyCase(calc.out[i].name)
----------------------------------------------------------------------------
(* C12.  Middleware chain order: the chain of every route a load registers *)
(* through registerObjectRoute is the global middlewares registered when   *)
(* the call was made, in their registration order, then the middlewares    *)
(* the declaration lists, then the validation middleware if the            *)
(* declaration has a validation spec; the validation middleware is last    *)
(* and nowhere else.                                                       *)
ChainInOrder(chain, globals, d) ==
    LET g == Len(globals)
        m == Len(Decl[d].middlewares)
    IN  /\ Len(chain) = g + m + (IF Decl[d].validate.present THEN 1 ELSE 0)
        /\ \A i \in 1..g : chain[i].kind = "mw" /\ chain[i].fn = globals[i].fn
        /\ \A i \in 1..m : chain[g + i].kind = "mw" /\ chain[g + i].fn = Decl[d].middlewares[i]
        /\ Decl[d].validate.present =>
              /\ chain[Len(chain)].kind = "validation"
              /\ chain[Len(chain)].validate = Decl[d].validate

C12_MiddlewareChainOrder ==
    [][ LoadedObject(last') =>
          LET registered == routes'[last'.name].router
          IN  /\ Len(registered) = Len(Decl[last'.decl].method)
              /\ router'[Len(router')].routes = registered
              /\ \A i \in 1..Len(registered) :
                    /\ registered[i].handler = Decl[last'.decl].handler
                    /\ ChainInOrder(registered[i].chain, middlewares, last'.decl) ]_vars

\* a declaration with a middleware of its own and a validation spec was loaded
\* while a global middleware was registered
C12_Witness ==
    /\ LoadedObject(last)
    /\ Decl[last.decl].middlewares # <<>>
    /\ Decl[last.decl].validate.present
    /\ Len(routes[last.name].router[1].chain) >= 3
----------------------------------------------------------------------------
(* C13.  reloadRoute(name) and removeRoute(name) with a name that is not a *)
(* key of the route registry fail with the route-not-found error and leave *)
(* the route registry, the route stack, the plugin registry, the           *)
(* middleware registry, the router and the document as they were.          *)
C13_UnknownNameChangesNothing ==
    [][ (last'.op \in {"reloadRoute", "removeRoute"} /\ last'.name \notin DOMAIN routes) =>
          /\ last'.err = "RouteNotFound"
          /\ routes' = routes
          /\ routeStack' = routeStack
          /\ plugins' = plugins
          /\ middlewares' = middlewares
          /\ router' = router
          /\ paths' = paths
          /\ tags' = tags
          /\ schemas' = schemas ]_vars

\* removeRoute failed on an unknown name that still has route-stack records,
\* with routes registered
C13_Witness ==
    /\ last.op = "removeRoute"
    /\ last.err = "RouteNotFound"
    /\ last.name \notin DOMAIN routes
    /\ StackKeys(routeStack, last.name) # {}
    /\ DOMAIN routes # {}
----------------------------------------------------------------------------
(* C14.  registerObjectRoute on a declaration whose handler is absent or   *)
(* not callable fails with the missing-handler error before any side       *)
(* effect: no plugin is registered, no initialize hook runs, and the route *)
(* registry, the route stack, the middleware registry, the document and    *)
(* the router are unchanged.                                               *)
C14_MissingHandlerChangesNothing ==
    [][ (last'.op = "registerObjectRoute" /\ handlerMissing(last'.decl)) =>
          /\ last'.err = "MissingHandler"
          /\ plugins' = plugins
          /\ initLog' = initLog
          /\ routes' = routes
          /\ routeStack' = routeStack
          /\ middlewares' = middlewares
          /\ paths' = paths
          /\ tags' = tags
          /\ router' = router ]_vars

\* a declaration without a callable handler that carries a plugin with an
\* initialize hook was refused
C14_Witness ==
    /\ last.op = "registerObjectRoute"
    /\ last.err = "MissingHandler"
    /\ Decl[last.decl].plugin # "none"
    /\ Plugin[Decl[last.decl].plugin].initialize = "ok"
    /\ Plugin[Decl[last.decl].plugin].name \notin DOMAIN plugins
----------------------------------------------------------------------------
(* C15.  registerObjectRoute rejects, with the invalid-method error, every *)
(* declared method that is not one of the fixed HTTP verb set; no          *)
(* registration on the router, no route-stack entry and no document entry  *)
(* is ever created for a method outside that verb set.                     *)
HttpVerbs == {"get", "post", "put", "patch", "delete", "head", "options"}

DeclaresOtherMethod(d) ==
    \E i \in DOMAIN Decl[d].method : ToLowerCase(Decl[d].method[i]) \notin HttpVerbs

C15_OnlyHttpVerbs ==
    /\ (last.op = "registerObjectRoute" /\ ~handlerMissing(last.decl)
          /\ Decl[last.decl].plugin = "none" /\ DeclaresOtherMethod(last.decl))
       => last.err = "InvalidMethod"
    /\ \A i \in DOMAIN routeStack : routeStack[i].method \in HttpVerbs
    /\ \A i \in DOMAIN router : \A j \in DOMAIN router[i].routes :
           router[i].routes[j].method \in HttpVerbs
    /\ \A k \in DOMAIN paths : k[2] \in HttpVerbs
----------------------------------------------------------------------------
(* C16.  loadRouteFile on a module whose primary export is neither a       *)
(* function nor an object fails with a load error, and that failure        *)
(* changes nothing in the route registry, the route stack, the plugin      *)
(* registry, the middleware registry or the document.                      *)
C16_InvalidExportChangesNothing ==
    [][ (last'.op = "loadRouteFile" /\ last'.decl \in DeclIds
           /\ Decl[last'.decl].kind \notin {"function", "object"}) =>
          /\ last'.err = "InvalidExport"
          /\ routes' = routes
          /\ routeStack' = routeStack
          /\ plugins' = plugins
          /\ middlewares' = middlewares
          /\ paths' = paths
          /\ tags' = tags ]_vars

\* a module exporting a string was refused while a route and a plugin were
\* registered
C16_Witness ==
    /\ last.op = "loadRouteFile"
    /\ last.file = FText
    /\ last.err = "InvalidExport"
    /\ routeStack # <<>>
    /\ DOMAIN plugins # {}
----------------------------------------------------------------------------
(* C17.  Directory discovery: loadRoutesFromDir on a directory that does   *)
(* not exist succeeds, registers nothing and leaves all registries         *)
(* unchanged; any traversal error other than not-found propagates out of   *)
(* getJsFiles and loadRoutesFromDir and aborts the load before any module  *)
(* is loaded.                                                              *)
RECURSIVE TraversalErrors(_)
\* the errors other than not-found that reading dir and the directories below it
\* runs into
TraversalErrors(dir) ==
    IF ReadDir[dir].code # ""
    THEN {ReadDir[dir].code} \ {"ENOENT"}
    ELSE UNION { TraversalErrors(ReadDir[dir].entries[i].dir) :
                 i \in { j \in DOMAIN ReadDir[dir].entries :
                          ~ReadDir[dir].entries[j].isFile } }

RegistriesUnchanged ==
    /\ routes' = routes
    /\ routeStack' = routeStack
    /\ plugins' = plugins
    /\ middlewares' = middlewares
    /\ paths' = paths
    /\ tags' = tags
    /\ router' = router
    /\ moduleCache' = moduleCache
    /\ initLog' = initLog

C17_DirectoryDiscovery ==
    [][ /\ (loads'.phase = "loading" /\ ReadDir[loads'.dirPath].code = "ENOENT") =>
             /\ DOMAIN loads'.tasks = {}
             /\ RegistriesUnchanged
        /\ (last'.op = "loadRoutesFromDir" /\ ReadDir[last'.name].code = "ENOENT") =>
             /\ last'.err = ""
             /\ last'.count = 0
             /\ RegistriesUnchanged
        /\ (last'.op = "loadRoutesFromDir" /\ TraversalErrors(last'.name) # {}) =>
             /\ last'.err \in TraversalErrors(last'.name)
             /\ loads.phase = "idle"
             /\ loads' = loads
             /\ RegistriesUnchanged
        /\ \A dir \in Dirs : TraversalErrors(dir) # {} =>
             /\ getJsFiles(dir).err \in TraversalErrors(dir)
             /\ getJsFiles(dir).files = <<>> ]_vars

\* a directory that does not exist was loaded, with success, after another
\* directory had registered routes
C17_Witness ==
    /\ last.op = "loadRoutesFromDir"
    /\ ReadDir[last.name].code = "ENOENT"
    /\ last.err = ""
    /\ DOMAIN routes # {}
----------------------------------------------------------------------------
(* C18.  Every route registered through registerObjectRoute without        *)
(* openapi metadata has, once registration returns, a document entry at    *)
(* paths[path][verb]; that entry, when it is an auto entry, carries a      *)
(* required request body if and only if the verb is post, put or patch,    *)
(* and a post entry carries a 201 response.                                *)
BodyVerbs == {"post", "put", "patch"}

C18_AutoEntryAfterRegistration ==
    (last.op = "registerObjectRoute" /\ last.err = "" /\ Decl[last.decl].openapi = "none") =>
        \A i \in DOMAIN Decl[last.decl].method :
            LET verb == ToLowerCase(Decl[last.decl].method[i])
                key == <<Decl[last.decl].path, verb>>
            IN  /\ key \in DOMAIN paths
                /\ ~paths[key].customSpec =>
                     /\ paths[key].requestBody.present <=> verb \in BodyVerbs
                     /\ paths[key].requestBody.required <=> verb \in BodyVerbs
                     /\ verb = "post" => "201" \in DOMAIN paths[key].responses

\* a declaration with put and delete and no openapi metadata was registered:
\* the put entry has a required body, the delete entry has none
C18_Witness ==
    /\ last.op = "registerObjectRoute"
    /\ last.err = ""
    /\ last.decl = "putW"
    /\ <<PathW, "put">> \in DOMAIN paths
    /\ paths[<<PathW, "put">>].requestBody.required
    /\ ~paths[<<PathW, "delete">>].requestBody.present
----------------------------------------------------------------------------
(* C19.  Default responses of an auto entry, for every verb: the success   *)
(* code is 200 for GET/PUT/PATCH, 201 for POST and 204 for DELETE; a 404   *)
(* reference is present exactly for GET/PUT/PATCH/DELETE; and every verb,  *)
(* recognized or not, carries the shared 400 validation-error reference    *)
(* and the 500 response.                                                   *)
SuccessCodes(responses) == DOMAIN responses \cap {"200", "201", "204"}

SuccessCodeOf(method) ==
    CASE method \in {"GET", "PUT", "PATCH"} -> {"200"}
      [] method = "POST" -> {"201"}
      [] method = "DELETE" -> {"204"}

CarriesCommon(responses) ==
    /\ {"400", "500"} \subseteq DOMAIN responses
    /\ responses["400"] = "$ref ValidationError"
    /\ responses["500"] = "Internal server error"

NotFoundIn(responses) ==
    "404" \in DOMAIN responses /\ responses["404"] = "$ref NotFoundError"

\* as stated: 404 for GET/PUT/PATCH/DELETE and for no other verb
C19_DefaultResponses ==
    calc.fn = "generateDefaultResponses" =>
        /\ calc.method \in HttpVerbsUpper => SuccessCodes(calc.responses) = SuccessCodeOf(calc.method)
        /\ NotFoundIn(calc.responses) <=> calc.method \in {"GET", "PUT", "PATCH", "DELETE"}
        /\ "404" \in DOMAIN calc.responses => NotFoundIn(calc.responses)
        /\ CarriesCommon(calc.responses)

\* C19 as the code has it: a verb that is none of the five gets the responses of
\* GET, so the 404 reference is absent for POST only
C19_DefaultResponsesWithFallback ==
    calc.fn = "generateDefaultResponses" =>
        /\ calc.method \in HttpVerbsUpper => SuccessCodes(calc.responses) = SuccessCodeOf(calc.method)
        /\ calc.method \notin HttpVerbsUpper => SuccessCodes(calc.responses) = SuccessCodeOf("GET")
        /\ NotFoundIn(calc.responses) <=> calc.method # "POST"
        /\ "404" \in DOMAIN calc.responses => NotFoundIn(calc.responses)
        /\ CarriesCommon(calc.responses)

\* the responses of a verb that is none of the five were generated
C19_Witness ==
    /\ calc.fn = "generateDefaultResponses"
    /\ calc.method = "HEAD"
    /\ NotFoundIn(calc.responses)
    /\ CarriesCommon(calc.responses)
----------------------------------------------------------------------------
(* C20.  Security of an auto entry: the bearer + API-key security          *)
(* requirement is attached to an auto-generated path entry if and only if  *)
(* the route's path does not start with any configured public-path prefix  *)
(* (defaults /health, /docs, /openapi, /ping); the decision depends on the *)
(* path string only.                                                       *)
HasPrefix(str, prefix) ==
    /\ Len(prefix) <= Len(str)
    /\ \A i \in 1..Len(prefix) : str[i] = prefix[i]

UnderPublicPrefix(path) == \E publicPath \in publicPaths : HasPrefix(path, publicPath)

C20_SecurityByPathPrefix ==
    calc.fn = "autoGenerateOpenApiSpec" =>
        /\ calc.entry.security <=> ~UnderPublicPrefix(calc.path)
        /\ \A method \in EntryVerbs :
              AutoEntry(calc.path, method).security = calc.entry.security

\* an entry was generated for /pings/users, which no public path names but
\* which starts with /ping: it gets no security requirement
C20_Witness ==
    /\ calc.fn = "autoGenerateOpenApiSpec"
    /\ calc.segments = << <<"p", "i", "n", "g", "s">>, <<"u", "s", "e", "r", "s">> >>
    /\ ~calc.entry.security
----------------------------------------------------------------------------
(* C21.  addRoute honours the verb and handler contracts of                *)
(* registerObjectRoute: it fails when the handler is absent or not         *)
(* callable, it fails with the invalid-method error for a verb outside the *)
(* fixed verb set, and it never returns success without having registered  *)
(* every requested verb.                                                   *)
RegisteredVerbs(d) ==
    { routeStack[i].method : i \in { j \in DOMAIN routeStack : routeStack[j].config = d } }

C21_AddRouteContracts ==
    last.op = "addRoute" =>
        /\ handlerMissing(last.decl) => last.err # ""
        /\ (~handlerMissing(last.decl) /\ DeclaresOtherMethod(last.decl)) =>
              last.err = "InvalidMethod"
        /\ last.err = "" =>
              \A i \in DOMAIN Decl[last.decl].method :
                  ToLowerCase(Decl[last.decl].method[i]) \in RegisteredVerbs(last.decl)
----------------------------------------------------------------------------
(* C22.  The query operations getRoutesCount, getPluginsCount,             *)
(* getMiddlewaresCount, getRouteInfo, getPluginInfo, listRoutes,           *)
(* listPlugins, getHealthInfo and getSpec are pure reads: none of them     *)
(* changes the route registry, the route stack, the plugin registry, the   *)
(* middleware registry or the document, and the counts they return equal   *)
(* the current sizes of the corresponding registries.                      *)
Queries == {"getRoutesCount", "getPluginsCount", "getMiddlewaresCount", "getRouteInfo",
            "getPluginInfo", "listRoutes", "listPlugins", "getHealthInfo", "getSpec"}

CountsAreSizes ==
    /\ calc.fn = "getRoutesCount" => calc.count = Cardinality(DOMAIN routes)
    /\ calc.fn = "getPluginsCount" => calc.count = Cardinality(DOMAIN plugins)
    /\ calc.fn = "getMiddlewaresCount" => calc.count = Cardinality(DOMAIN middlewares)
    /\ calc.fn = "listRoutes" => { r.name : r \in calc.list } = DOMAIN routes
    /\ calc.fn = "listPlugins" => Cardinality(calc.list) = Cardinality(DOMAIN plugins)
    /\ calc.fn = "getHealthInfo" =>
          /\ calc.health.routes = Cardinality(DOMAIN routes)
          /\ calc.health.plugins = Cardinality(DOMAIN plugins)
          /\ calc.health.middlewares = Cardinality(DOMAIN middlewares)

C22_QueriesArePureReads ==
    [][ last'.op \in Queries =>
          /\ routes' = routes
          /\ routeStack' = routeStack
          /\ plugins' = plugins
          /\ middlewares' = middlewares
          /\ paths' = paths
          /\ tags' = tags
          /\ schemas' = schemas
          /\ router' = router
          /\ CountsAreSizes' ]_vars

\* getHealthInfo was called on a registry whose route has more route-stack
\* records than names
C22_Witness ==
    /\ last.op = "getHealthInfo"
    /\ calc.health.routes = 1
    /\ Len(routeStack) = 2
----------------------------------------------------------------------------
(* C23.  Fixed parts of the document: no sequence of registration, reload, *)
(* removal, regeneration or addSchema calls changes the document's info,   *)
(* servers, components.securitySchemes or components.responses;            *)
(* components.schemas changes only through addSchema, which sets exactly   *)
(* the named key (last write wins) and leaves paths and tags unchanged.    *)
C23_FixedDocumentParts ==
    [][ /\ docBase' = docBase
        /\ docBase = InitialDocBase
        /\ schemas' # schemas => last'.op = "addSchema"
        /\ last'.op = "addSchema" =>
              /\ last'.name \in DOMAIN schemas'
              /\ schemas'[last'.name] = last'.decl
              /\ \A other \in (DOMAIN schemas \cup DOMAIN schemas') \ {last'.name} :
                    other \in DOMAIN schemas /\ other \in DOMAIN schemas'
                      /\ schemas'[other] = schemas[other]
              /\ paths' = paths
              /\ tags' = tags ]_vars

\* a schema was written over the earlier one of the same name while a custom
\* path entry was in the document
C23_Witness ==
    /\ last.op = "addSchema"
    /\ last.again
    /\ DOMAIN schemas = {last.name}
    /\ \E k \in DOMAIN paths : paths[k].customSpec
----------------------------------------------------------------------------
(* C24.  Spec/route consistency: in every state reachable by any sequence  *)
(* of registrations (including ones that fail part-way), reloads and       *)
(* removals, every path+verb entry present in the document is served by a  *)
(* handler mounted on the main router and belongs to a name that can be    *)
(* looked up in the route registry.                                        *)
Mounted(k) ==
    \E i \in DOMAIN router : \E j \in DOMAIN router[i].routes :
        /\ router[i].routes[j].path = k[1]
        /\ router[i].routes[j].method = k[2]

NamedInRegistry(k) ==
    \E i \in DOMAIN routeStack :
        /\ routeStack[i].path = k[1]
        /\ routeStack[i].method = k[2]
        /\ routeStack[i].routeName \in DOMAIN routes

C24_DocumentEntriesAreServed ==
    \A k \in DOMAIN paths : Mounted(k) /\ NamedInRegistry(k)
----------------------------------------------------------------------------
(* C25.  Last-write-wins without merge: whenever a registration happens    *)
(* under a name that is already in the route registry (by reloadRoute, or  *)
(* by loading another source that derives the same name), the prior        *)
(* registration is replaced: afterwards the route-stack entries and the    *)
(* auto-generated document entries attributed to that name are exactly     *)
(* those of the new declaration, with none left over from the old one.     *)
Reregistered(call) ==
    /\ call.op \in {"loadRouteFile", "reloadRoute"}
    /\ call.err = ""
    /\ call.decl \in DeclIds
    /\ Decl[call.decl].kind = "object"
    /\ call.name \in DOMAIN routes

C25_ReplacedWithoutLeftovers ==
    [][ Reregistered(last') =>
          /\ StackKeys(routeStack', last'.name) = VerbKeys(last'.decl)
          /\ \A k \in DOMAIN paths' :
                (~paths'[k].customSpec /\ k \notin OtherStackKeys(routeStack', last'.name))
                    => k \in VerbKeys(last'.decl) ]_vars
----------------------------------------------------------------------------
(* C26.  Plugin middleware is prospective only: once registerPlugin has    *)
(* registered a plugin's middleware M, every route registered on the       *)
(* router afterwards through registerObjectRoute has M in the global       *)
(* prefix of its chain (the declaration that carries the plugin and the    *)
(* plugin's nested routes included), and no route registered before M      *)
(* gains it.                                                               *)
GlobalPrefix(chain, globals) ==
    /\ Len(globals) <= Len(chain)
    /\ \A i \in 1..Len(globals) : chain[i].kind = "mw" /\ chain[i].fn = globals[i].fn

RegisteredObject(call) ==
    /\ call.op \in {"registerObjectRoute", "loadRouteFile"}
    /\ call.err = ""
    /\ call.decl \in DeclIds
    /\ Decl[call.decl].kind = "object"

C26_PluginMiddlewareProspective ==
    [][ RegisteredObject(last') =>
          /\ Len(router) <= Len(router')
          /\ \A i \in 1..Len(router) : router'[i] = router[i]
          /\ \A i \in (Len(router) + 1)..Len(router') :
                \A j \in 1..Len(router'[i].routes) :
                    GlobalPrefix(router'[i].routes[j].chain, middlewares') ]_vars
----------------------------------------------------------------------------
(* C27.  Plugin hook sequencing: registerPlugin performs, strictly in this *)
(* order, the name check, the dependency checks, the initialize hook, the  *)
(* middleware registration, the registration of each nested route in       *)
(* declared order, and only then records the plugin descriptor; and for an *)
(* object declaration carrying plugin metadata all of this completes       *)
(* before any verb of that declaration is registered on the router or      *)
(* pushed to the route stack.  The order shows in what a call that fails   *)
(* at one step has done and has not done, and in the order of the route    *)
(* stack.                                                                  *)
DeclRecords(d, routeName) ==
    [i \in 1..Len(Decl[d].method) |->
        [path |-> Decl[d].path, method |-> ToLowerCase(Decl[d].method[i]),
         routeName |-> routeName, config |-> d]]

RECURSIVE NestedRecords(_, _)
\* the route-stack records of the first k nested routes of plugin p
NestedRecords(p, k) ==
    IF k = 0 THEN <<>>
    ELSE NestedRecords(p, k - 1)
         \o DeclRecords(Plugin[p].routes[k], extractRouteName(PluginSource(Plugin[p].name)))

\* the number of nested routes of p that come before the first one without a
\* callable handler
NestedBeforeFailure(p) ==
    LET failing == { i \in DOMAIN Plugin[p].routes : handlerMissing(Plugin[p].routes[i]) }
    IN  IF failing = {} THEN Len(Plugin[p].routes)
        ELSE (CHOOSE i \in failing : \A j \in failing : i <= j) - 1

InitializeRan(p) ==
    initLog' = IF Plugin[p].initialize # "none" THEN Append(initLog, Plugin[p].name)
               ELSE initLog

MiddlewareRegistered(p) ==
    IF Plugin[p].middleware = "none" THEN middlewares' = middlewares
    ELSE \E i \in DOMAIN middlewares' :
            middlewares'[i] = [name |-> Plugin[p].name \o "_middleware",
                               fn |-> Plugin[p].middleware]

PluginRecorded(p) ==
    /\ Plugin[p].name \in DOMAIN plugins'
    /\ plugins'[Plugin[p].name].version = Plugin[p].version

\* what a run of registerPlugin(p) that ended with err has done
PluginSequence(p, err) ==
    CASE err \in {"PluginNameMissing", "DependencyNotFound"} ->
           /\ err = "PluginNameMissing" <=> Plugin[p].name = ""
           /\ initLog' = initLog
           /\ middlewares' = middlewares
           /\ plugins' = plugins
           /\ routeStack' = routeStack
      [] err = "InitializeFailed" ->
           /\ InitializeRan(p)
           /\ middlewares' = middlewares
           /\ plugins' = plugins
           /\ routeStack' = routeStack
      [] err = "MissingHandler" ->
           /\ InitializeRan(p)
           /\ MiddlewareRegistered(p)
           /\ plugins' = plugins
           /\ routeStack' = routeStack \o NestedRecords(p, NestedBeforeFailure(p))
      [] OTHER -> FALSE

PluginErrors == {"PluginNameMissing", "DependencyNotFound", "InitializeFailed", "MissingHandler"}

C27_PluginHookSequencing ==
    [][ /\ last'.op = "registerPlugin" =>
              IF last'.err = ""
              THEN /\ InitializeRan(last'.decl)
                   /\ MiddlewareRegistered(last'.decl)
                   /\ routeStack' = routeStack
                                      \o NestedRecords(last'.decl, Len(Plugin[last'.decl].routes))
                   /\ PluginRecorded(last'.decl)
              ELSE PluginSequence(last'.decl, last'.err)
        /\ ( /\ last'.op = "registerObjectRoute"
             /\ ~handlerMissing(last'.decl)
             /\ Decl[last'.decl].plugin # "none" ) =>
              LET p == Decl[last'.decl].plugin
                  own == DeclRecords(last'.decl, last'.name)
              IN  IF last'.err \in PluginErrors
                  THEN /\ PluginSequence(p, last'.err)
                       /\ Len(router') - Len(router) <= NestedBeforeFailure(p)
                  ELSE /\ InitializeRan(p)
                       /\ MiddlewareRegistered(p)
                       /\ PluginRecorded(p)
                       /\ \E m \in 0..Len(own) :
                             routeStack' = routeStack
                                           \o NestedRecords(p, Len(Plugin[p].routes))
                                           \o SubSeq(own, 1, m) ]_vars

\* a plugin whose second nested route has no handler was registered: its hook
\* ran, its middleware and its first nested route are registered, the plugin is not
C27_Witness ==
    /\ last.op = "registerPlugin"
    /\ last.decl = "plugBadNested"
    /\ last.err = "MissingHandler"
    /\ "pd" \notin DOMAIN plugins
    /\ \E i \in DOMAIN routeStack : routeStack[i].routeName = "plugin_pd"
----------------------------------------------------------------------------
(* C28.  A registration that fails (missing handler, invalid verb at any   *)
(* position of a multi-verb list, plugin error) does not corrupt           *)
(* already-registered routes: the registry descriptor, the route-stack     *)
(* entries and the document entries (custom and auto) of every other,      *)
(* previously registered route are exactly as they were before the failing *)
(* call.                                                                   *)
RecordsOf(stack, routeName) ==
    LET IsOf(r) == r.routeName = routeName
    IN  SelectSeq(stack, IsOf)

\* the names the registrations of a call go under: the derived name and the
\* name of the nested routes of the plugin it carries
NamesOf(call) ==
    {call.name}
    \cup { extractRouteName(PluginSource(Plugin[Decl[d].plugin].name)) :
             d \in { e \in {call.decl} : e \in DeclIds /\ Decl[e].kind = "object"
                                          /\ Decl[e].plugin # "none" } }

C28_FailureLeavesOthersIntact ==
    [][ (last'.op \in {"registerObjectRoute", "loadRouteFile"} /\ last'.err # "") =>
          \A other \in DOMAIN routes \ NamesOf(last') :
              /\ other \in DOMAIN routes'
              /\ routes'[other] = routes[other]
              /\ RecordsOf(routeStack', other) = RecordsOf(routeStack, other)
              /\ \A k \in StackKeys(routeStack, other) :
                    k \in DOMAIN paths => (k \in DOMAIN paths' /\ paths'[k] = paths[k]) ]_vars
----------------------------------------------------------------------------
(* C29.  All-settled join: loadRoutesFromDir starts a load for every       *)
(* discovered module, the failure of one load neither cancels nor prevents *)
(* the registration effects of any other, and loadRoutesFromDir returns    *)
(* (or fails) only after every load has settled; consequently it           *)
(* terminates if and only if every individual module load terminates.      *)
PendingLoads == { f \in DOMAIN loads.tasks : loads.tasks[f].status = "pending" }

StuckLoads == { f \in DOMAIN loads.tasks : Stuck(loads.tasks[f]) }

IsPrefix(s, t) == Len(s) <= Len(t) /\ SubSeq(t, 1, Len(s)) = s

\* a load is started for every discovered module
EveryModuleStarted ==
    last'.op = "startLoadRoutesFromDir" =>
        /\ DOMAIN loads'.tasks = SeqToSet(getJsFiles(last'.name).files)
        /\ \A f \in DOMAIN loads'.tasks : loads'.tasks[f] = NewTask

\* a step of one load, failing or not, leaves every other load as it was and
\* takes back nothing that was registered
NoLoadCancelsAnother ==
    last'.op = "loadStep" =>
        /\ DOMAIN loads'.tasks = DOMAIN loads.tasks
        /\ \A g \in DOMAIN loads.tasks \ {last'.file} : loads'.tasks[g] = loads.tasks[g]
        /\ DOMAIN routes \subseteq DOMAIN routes'
        /\ DOMAIN plugins \subseteq DOMAIN plugins'
        /\ IsPrefix(routeStack, routeStack')

\* loadRoutesFromDir returns or fails after the last load settled, and counts
\* the rejected ones
ReturnsAfterAllSettled ==
    (loads.phase = "loading" /\ loads'.phase = "idle") =>
        /\ PendingLoads = {}
        /\ last'.op = "loadRoutesFromDir"
        /\ last'.files = DOMAIN loads.tasks
        /\ last'.count = Cardinality({ f \in DOMAIN loads.tasks :
                                         loads.tasks[f].status = "rejected" })
        /\ (last'.err # "") = (last'.count > 0)

\* a load that never terminates stays, and the directory load with it
HangingLoadHangsTheCall ==
    \A f \in StuckLoads : loads'.phase = "loading" /\ f \in DOMAIN loads'.tasks
                                                   /\ Stuck(loads'.tasks[f])

C29_AllSettledJoin ==
    /\ [][ /\ EveryModuleStarted
           /\ NoLoadCancelsAnother
           /\ ReturnsAfterAllSettled
           /\ HangingLoadHangsTheCall ]_vars
    /\ (loads.phase = "loading") ~> (PendingLoads \subseteq StuckLoads)
    /\ (loads.phase = "loading") ~> (loads.phase = "idle" \/ StuckLoads # {})

\* one load hangs, its sibling has registered its route, the call has not returned
C29_Witness ==
    /\ loads.phase = "loading"
    /\ StuckLoads = {FWait}
    /\ loads.tasks[FFine].status = "fulfilled"
    /\ "fine" \in DOMAIN routes
----------------------------------------------------------------------------
(* C30.  Interleaving independence of loadRoutesFromDir: for a fixed set   *)
(* of modules, the outcome (success or failure and the failure count, the  *)
(* contents of the route and plugin registries, each route's middleware    *)
(* chain, and the document) is the same under every interleaving of the    *)
(* concurrently running module loads, including directories where one      *)
(* module's plugin depends on a plugin declared by another module or where *)
(* two modules derive the same route name.  One of the interleavings runs  *)
(* every load to its end before the next one starts, in the order of       *)
(* discovery; the outcome of every other one is compared with it.          *)
FreshState ==
    [routes |-> EmptyMap, middlewares |-> <<>>, plugins |-> EmptyMap, routeStack |-> <<>>,
     router |-> <<>>, paths |-> EmptyMap, tags |-> <<>>, moduleCache |-> EmptyMap,
     initLog |-> <<>>, err |-> ""]

\* the loads of the files one after another; acc is [st, failed]
RECURSIVE OneByOne(_, _)
OneByOne(files, acc) ==
    IF files = <<>> THEN acc
    ELSE OneByOne(Tail(files),
                  Only({ [st |-> [st EXCEPT !.err = ""],
                          failed |-> acc.failed + (IF st.err # "" THEN 1 ELSE 0)] :
                         st \in { loadRouteFile(acc.st, InitialDisk, Head(files), 0) } }))

\* the outcome of a directory load: the failure count, the registries, the
\* routes with their chains, the document
Outcome(st, failed) ==
    [failed |-> failed, routes |-> st.routes, plugins |-> st.plugins,
     chains |-> SeqToSet(Flatten(st.router)), paths |-> st.paths,
     tags |-> SeqToSet(st.tags)]

C30_InterleavingIndependence ==
    (ops = 1 /\ loads.phase = "idle" /\ last.op = "loadRoutesFromDir" /\ last.files # {}) =>
        \A ref \in { OneByOne(getJsFiles(last.name).files, [st |-> FreshState, failed |-> 0]) } :
            Outcome(Cur, last.count) = Outcome(ref.st, ref.failed)
----------------------------------------------------------------------------
(* C31.  registerFunctionRoute invokes the declaration function exactly    *)
(* once with a fresh sub-router, then records one registry entry of kind   *)
(* function under the derived name, mounts the sub-router on the main      *)
(* router, and records one route-stack entry for every (path, verb) pair   *)
(* the function registered on the sub-router, each of which receives an    *)
(* auto-generated document entry (a custom entry already at that path and  *)
(* verb stays, as everywhere in the document).                             *)
LoadedFunction(call) ==
    /\ call.op = "loadRouteFile"
    /\ call.err = ""
    /\ call.decl \in DeclIds
    /\ Decl[call.decl].kind = "function"

C31_FunctionRouteRegistration ==
    [][ LoadedFunction(last') =>
          LET registered == Decl[last'.decl].fnRoutes
              routeName == extractRouteName(last'.file)
              was == Len(routeStack)
          IN  /\ routeName = last'.name
              /\ routeName \in DOMAIN routes'
              /\ routes'[routeName].type = "function"
              /\ routes'[routeName].filePath = last'.file
              \* what one call of the function leaves on an empty sub-router
              /\ Len(routes'[routeName].router) = Len(registered)
              /\ \A i \in 1..Len(registered) :
                    /\ routes'[routeName].router[i].path = registered[i].path
                    /\ routes'[routeName].router[i].method = registered[i].method
                    /\ routes'[routeName].router[i].handler = registered[i].handler
              /\ \A n \in DOMAIN routes' \ {routeName} :
                    n \in DOMAIN routes /\ routes'[n] = routes[n]
              /\ router' = Append(router, [kind |-> "router",
                                           routes |-> routes'[routeName].router])
              /\ Len(routeStack') = was + Len(registered)
              /\ SubSeq(routeStack', 1, was) = routeStack
              /\ \A i \in 1..Len(registered) :
                    LET k == <<registered[i].path, registered[i].method>>
                    IN  /\ routeStack'[was + i].path = k[1]
                        /\ routeStack'[was + i].method = k[2]
                        /\ routeStack'[was + i].routeName = routeName
                        /\ k \in DOMAIN paths'
                        /\ \/ paths'[k] = AutoEntry(k[1], k[2])
                           \/ k \in DOMAIN paths /\ paths[k].customSpec
                                                 /\ paths'[k] = paths[k] ]_vars

\* a function module was loaded next to other routes and its pairs are in the
\* document, generated
C31_Witness ==
    /\ LoadedFunction(last)
    /\ Len(Decl[last.decl].fnRoutes) > 1
    /\ last.name \in DOMAIN routes
    /\ routes[last.name].type = "function"
    /\ DOMAIN routes # {last.name}
    /\ \A i \in 1..Len(Decl[last.decl].fnRoutes) :
          LET k == <<Decl[last.decl].fnRoutes[i].path, Decl[last.decl].fnRoutes[i].method>>
          IN  k \in DOMAIN paths /\ ~paths[k].customSpec
----------------------------------------------------------------------------
(* C32.  Plugin descriptors are immutable once recorded: after a plugin    *)
(* name has been recorded in the plugin registry, no later operation       *)
(* (another registration carrying the same plugin name, a reload of its    *)
(* owning route, a removal) changes its version, dependencies or owning    *)
(* route name.                                                             *)
C32_PluginDescriptorsImmutable ==
    [][ \A name \in DOMAIN plugins :
          /\ name \in DOMAIN plugins'
          /\ plugins'[name].version = plugins[name].version
          /\ plugins'[name].dependencies = plugins[name].dependencies
          /\ plugins'[name].routeName = plugins[name].routeName ]_vars
----------------------------------------------------------------------------
(* C33.  A plugin's initialize hook is one-shot: over any sequence of      *)
(* loads, registrations and reloads, the initialize hook of a given plugin *)
(* name runs at most once.                                                 *)
\* how often the initialize hook of a plugin name was called
InitializeRuns(name) == Cardinality({ i \in DOMAIN initLog : initLog[i] = name })

C33_InitializeOneShot ==
    \A i \in DOMAIN initLog : InitializeRuns(initLog[i]) <= 1
----------------------------------------------------------------------------
(* C34.  Failed plugin registration is all-or-nothing: whenever            *)
(* registerPlugin fails (missing name, missing dependency, initialize hook *)
(* failure, non-function middleware, or a failing nested route), the       *)
(* plugin registry, middleware registry, route registry, route stack and   *)
(* document are the same as before the call.                               *)
C34_FailedPluginAllOrNothing ==
    [][ (last'.op = "registerPlugin" /\ last'.err # "") =>
          /\ plugins' = plugins
          /\ middlewares' = middlewares
          /\ routes' = routes
          /\ routeStack' = routeStack
          /\ paths' = paths
          /\ tags' = tags ]_vars
----------------------------------------------------------------------------
(* C35.  Document tags: in every reachable state the document's tags list  *)
(* has no duplicate name, never shrinks, and contains every tag name that  *)
(* appears in the tags of any path entry of the document, auto-generated   *)
(* or custom.                                                              *)
NoDuplicateTag(list) == \A i, j \in DOMAIN list : list[i] = list[j] => i = j

\* the tag names of the path entries of a document
EntryTags(entries) == UNION { SeqToSet(entries[k].tags) : k \in DOMAIN entries }

C35_DocumentTags ==
    [][ /\ NoDuplicateTag(tags')
        /\ IsPrefix(tags, tags')
        /\ EntryTags(paths') \subseteq SeqToSet(tags') ]_vars
----------------------------------------------------------------------------
(* C36.  Custom entries are permanent: once a path+verb entry is flagged   *)
(* custom it stays in the document through every later regeneration,       *)
(* reload and removal, including removeRoute of the very route that        *)
(* supplied it and a reload whose new declaration no longer carries        *)
(* openapi metadata; it changes only when a later registration supplies    *)
(* openapi metadata for the same path+verb.                                *)
C36_CustomEntriesPermanent ==
    [][ \A k \in CustomKeys :
          /\ k \in DOMAIN paths'
          /\ paths'[k].customSpec
          /\ paths'[k] # paths[k] => Redocuments(last', k) ]_vars

\* the module that supplied the entry was reloaded without metadata and then
\* removed; no route is left and the entry is still in the document
C36_Witness ==
    /\ last.op = "removeRoute"
    /\ last.err = ""
    /\ DOMAIN routes = {}
    /\ routeStack = <<>>
    /\ \E u \in DOMAIN moduleCache : Decl[moduleCache[u]].openapi # "none"
    /\ \E u \in DOMAIN moduleCache : Decl[moduleCache[u]].openapi = "none"
    /\ CustomKeys = {<<PathB, "get">>}
    /\ DOMAIN paths = CustomKeys
----------------------------------------------------------------------------
(* C37.  Routes injected through addRoute are held by the route registry   *)
(* like any other route: after addRoute succeeds, getRoutesCount() has     *)
(* grown, listRoutes() contains the synthesized name, and removeRoute on   *)
(* that name succeeds and removes the route's auto-generated document      *)
(* entry.                                                                  *)
\* the name addRoute synthesizes: `manual_${Date.now()}`
ManualName(t) == "manual_" \o ToString(t)

C37_AddedRoutesAreRegistered ==
    [][ (last'.op = "addRoute" /\ last'.err = "") =>
          LET name == ManualName(now)
              removed == removeRoute(Cur', name)
          IN  /\ getRoutesCount' > getRoutesCount
              /\ \E r \in listRoutes' : r.name = name
              /\ removed.err = ""
              /\ \A k \in StackKeys(routeStack', name) :
                    (~paths'[k].customSpec /\ k \notin OtherStackKeys(routeStack', name))
                        => k \notin DOMAIN removed.paths ]_vars
----------------------------------------------------------------------------
(* C38.  registerFunctionRoute is atomic on failure: if the declaration    *)
(* function throws or rejects, nothing is recorded: the route registry,    *)
(* route stack and document are unchanged and the sub-router is not        *)
(* mounted on the main router, even if the function had already registered *)
(* some routes on the sub-router before failing.                           *)
FunctionFailed(call) ==
    /\ call.op = "loadRouteFile"
    /\ call.err = "RouteFunctionThrew"
    /\ call.decl \in DeclIds
    /\ Decl[call.decl].kind = "function"

C38_FunctionRouteAtomicOnFailure ==
    [][ FunctionFailed(last') =>
          /\ routes' = routes
          /\ routeStack' = routeStack
          /\ paths' = paths
          /\ tags' = tags
          /\ router' = router ]_vars

\* the function registered a route on its sub-router and then failed, after
\* another route had been registered; the failing module's name is not recorded
C38_Witness ==
    /\ FunctionFailed(last)
    /\ Decl[last.decl].fnRoutes # <<>>
    /\ DOMAIN routes # {}
    /\ last.name \notin DOMAIN routes
    /\ Len(router) = Cardinality(DOMAIN routes)
====
